---- MODULE Spec2Model ----
(***************************************************************************)
(* Skip-marker resolution and auto-skip countdown of the VideoPlayer       *)
(* component (src/components/VideoPlayer.tsx), fed by the marker lists of  *)
(* the community aggregator (src/services/communitySkipService.ts).        *)
(*                                                                         *)
(* The component is a set of React state cells, two effects and a few      *)
(* callbacks.  A state cell changes only through its setter; an effect     *)
(* runs after a render in which one of its dependencies changed.  The      *)
(* model keeps one "dirty" flag per effect (a dependency changed since the *)
(* effect last ran).  Timer callbacks and user callbacks run only when no  *)
(* effect is pending, which is React's flush-before-next-event order.      *)
(* Within one render pass the countdown effect writes nothing the          *)
(* resolution effect reads, so running it first reproduces the pass in     *)
(* which both effects see the same committed state.                        *)
(*                                                                         *)
(* Times are whole seconds.                                                *)
(***************************************************************************)
EXTENDS Integers, Sequences, FiniteSets, TLC

\* ------------------------------------------------------------------ bounds
\* Length of the loaded video in seconds; positions range over 0..VideoDuration.
VideoDuration == 20
\* The clock (Date.now(), in milliseconds) runs up to MaxDays cache lives.
MaxDays == 1
MaxInFlight == 2
MaxPlayers == 2

\* ------------------------------------------------------- program constants
\* Early-activation lead of a credits marker (position >= startTime - 10).
CreditsLead == 10
\* Manual credits are not active in the last seconds (position < duration - 5).
TailGuard == 5
\* First value of the auto-skip countdown (let countdown = 3).
CountdownStart == 3
\* Two same-type markers whose starts are less than 2 s apart are one marker.
DedupTolerance == 2
\* Life of a cache entry in milliseconds (cacheTTL = 24 * 60 * 60 * 1000).
cacheTTL == 86400000
CompletionPercent == 80
RefreshLead == 60000

\* ------------------------------------------------------------------- data
\* A SkipMarker.  ref identifies the object: the index in the community list
\* for a community marker, 0 for a marker built by the manual fallback (a new
\* object literal on every run of the effect).
Marker(t, s, e, src, r) ==
    [type |-> t, startTime |-> s, endTime |-> e, source |-> src, ref |-> r]

\* useState<SkipMarker | null>(null): the null value; NULL.type stands for
\* the undefined of activeSkipMarker?.type.
NULL == [type |-> "null", startTime |-> 0, endTime |-> 0, source |-> "none", ref |-> 0]

\* useState<number | undefined>(undefined)
Undefined == <<>>

Positions == 0 .. VideoDuration
\* player.duration || 0: 0 until the video is loaded.
Durations == {0, VideoDuration}

\* ------------------------------------------------- community aggregator
\* An absent (undefined) field of a provider response.
Absent == <<>>

\* A {start, end} object of a provider response.
Span(s, e) == [start |-> << s >>, end |-> << e >>]

\* Provider responses used to build the episode's marker lists: intro and
\* outro are each absent or a complete span.
IntroSpans == { Span(1, 4), Span(3, 6) }
OutroSpans == { Span(15, 19) }
Responses ==
    [intro : {Absent} \cup IntroSpans, outro : {Absent} \cup OutroSpans]

\* data.x?.start !== undefined && data.x?.end !== undefined
Complete(x) == x # Absent /\ x.start # Absent /\ x.end # Absent

\* A SkipMarker as the service builds it (type, startTime, endTime, source).
ServiceMarker(t, x) ==
    [type |-> t, startTime |-> x.start[1], endTime |-> x.end[1], source |-> "fingerprint"]

\* convertToSkipMarkers with its two blocks in the other order.
ConvertToSkipMarkersOutroFirst(data) ==
    (IF Complete(data.outro) THEN << ServiceMarker("credits", data.outro) >> ELSE << >>)
    \o (IF Complete(data.intro) THEN << ServiceMarker("intro", data.intro) >> ELSE << >>)

\* CommunitySkipService.convertToSkipMarkers
ConvertToSkipMarkers(data) ==
    (IF Complete(data.intro) THEN << ServiceMarker("intro", data.intro) >> ELSE << >>)
    \o (IF Complete(data.outro) THEN << ServiceMarker("credits", data.outro) >> ELSE << >>)

Abs(x) == IF x < 0 THEN 0 - x ELSE x

\* The duplicate test without its comparison of the types.
ExistsAnyType(allMarkers, marker) ==
    \E i \in 1 .. Len(allMarkers) :
        Abs(allMarkers[i].startTime - marker.startTime) < DedupTolerance

\* allMarkers.some(m => m.type === marker.type &&
\*                      Math.abs(m.startTime - marker.startTime) < 2)
Exists(allMarkers, marker) ==
    \E i \in 1 .. Len(allMarkers) :
        /\ allMarkers[i].type = marker.type
        /\ Abs(allMarkers[i].startTime - marker.startTime) < DedupTolerance

\* The merge loop of getSkipMarkersForEpisode: the first provider's markers,
\* then each marker of the second provider that is not already covered.
RECURSIVE MergeInto(_, _)
MergeInto(allMarkers, rest) ==
    IF rest = << >> THEN allMarkers
    ELSE MergeInto(IF Exists(allMarkers, Head(rest)) THEN allMarkers
                   ELSE Append(allMarkers, Head(rest)),
                   Tail(rest))

MergeMarkers(introHaterMarkers, stremioMarkers) ==
    MergeInto(introHaterMarkers, stremioMarkers)

\* The list as the player holds it: each element is an object of its own.
AsObjects(list) ==
    [i \in 1 .. Len(list) |->
        Marker(list[i].type, list[i].startTime, list[i].endTime, list[i].source, i)]

\* The marker lists getSkipMarkersForEpisode may hand to the player.
MarkerLists ==
    { AsObjects(MergeMarkers(ConvertToSkipMarkers(r1), ConvertToSkipMarkers(r2))) :
        r1 \in Responses, r2 \in Responses }

\* Calls of getSkipMarkersForEpisode in flight at a time: loadSkipData, its
\* only caller, makes one call per episode load and awaits it.
MaxCalls == 1
\* The calls that may overlap at all: the slots of the variable calls.
CallSlots == 1 .. 2

\* The episode keys of the cache (imdbId_sSSeEE).
Keys == { "tt1_s01e01", "tt1_s01e02" }

\* The readings of Date.now(): the first two milliseconds and, for each cache
\* life, the millisecond before it ends, the one it ends at and the next.
Instants ==
    { 0, 1 } \cup { d * cacheTTL + o : d \in 1 .. MaxDays, o \in { 0 - 1, 0, 1 } }

\* Map.get: an entry that is there, or undefined.
Entry(v) == [has |-> TRUE, value |-> v]
NoList == [has |-> FALSE, value |-> << >>]
NoTime == [has |-> FALSE, value |-> 0]

\* JavaScript truthiness of what Map.get returned: an array is truthy, even
\* when empty; a number is truthy unless it is 0.
TruthyArray(e) == e.has
TruthyNumber(e) == e.has /\ e.value # 0

\* The cache test of getSkipMarkersForEpisode:
\* cached && lastFetch && Date.now() - lastFetch < this.cacheTTL.
Fresh(cached, lastFetch, t) ==
    /\ TruthyArray(cached)
    /\ TruthyNumber(lastFetch)
    /\ t - lastFetch.value < cacheTTL

\* What a provider request comes to: a 2xx response with a body, a non-2xx
\* response with a body, a network error, or a body that is not the JSON
\* expected.
EmptyBody == [intro |-> Absent, outro |-> Absent]

AggBodies ==
    { EmptyBody,
      [intro |-> Span(1, 4), outro |-> Absent],
      [intro |-> Span(3, 6), outro |-> Span(15, 19)] }

\* Bodies for the merge: intros 1, 2 and 3 seconds after the intro at 1, with
\* other end times, and an intro that starts where the credits start.
MergeBodies ==
    [ intro : { Absent, Span(1, 4), Span(2, 6), Span(3, 6), Span(4, 6), Span(15, 18) },
      outro : { Absent } \cup OutroSpans ]

Outcome(kind, body) == [kind |-> kind, body |-> body]

MergeOutcomes == { Outcome("ok", b) : b \in MergeBodies }

ProviderOutcomes ==
    { Outcome("ok", b) : b \in AggBodies }
      \cup { Outcome("status", b) : b \in AggBodies }
      \cup { Outcome("network", EmptyBody), Outcome("malformed", EmptyBody) }

\* A promise settled with a value, or rejected.
Fulfilled(v) == [status |-> "fulfilled", value |-> v]
Rejected == [status |-> "rejected", value |-> << >>]

\* A provider method without its try/catch: fetch and response.json() throw.
GetStremioSkipMarkersNoCatch(o) ==
    IF o.kind = "network" \/ o.kind = "malformed" THEN Rejected
    ELSE IF o.kind = "status" THEN Fulfilled(<< >>)
    ELSE Fulfilled(ConvertToSkipMarkers(o.body))

\* A provider method without its test of response.ok.
GetIntroHaterMarkersAnyStatus(o) ==
    IF o.kind = "network" \/ o.kind = "malformed" THEN Fulfilled(<< >>)
    ELSE Fulfilled(ConvertToSkipMarkers(o.body))

\* getIntroHaterMarkers and getStremioSkipMarkers: [] when fetch throws, when
\* the status is not 2xx and when reading the body throws; the converted body
\* otherwise.
GetIntroHaterMarkers(o) ==
    IF o.kind = "network" THEN Fulfilled(<< >>)
    ELSE IF o.kind = "status" THEN Fulfilled(<< >>)
    ELSE IF o.kind = "malformed" THEN Fulfilled(<< >>)
    ELSE Fulfilled(ConvertToSkipMarkers(o.body))

GetStremioSkipMarkers(o) ==
    IF o.kind = "network" THEN Fulfilled(<< >>)
    ELSE IF o.kind = "status" THEN Fulfilled(<< >>)
    ELSE IF o.kind = "malformed" THEN Fulfilled(<< >>)
    ELSE Fulfilled(ConvertToSkipMarkers(o.body))

\* A provider request of a call: not answered yet, or how it ended.
Pending == [kind |-> "pending", status |-> "pending", value |-> << >>]
Answer(o, p) == [kind |-> o.kind, status |-> p.status, value |-> p.value]
\* A request whose provider will never answer: fetch stays pending; the
\* timeout: 5000 among its options is no option of fetch and ends nothing.
Silent == [kind |-> "silent", status |-> "pending", value |-> << >>]

\* The rest of getSkipMarkersForEpisode once Promise.all has settled: the
\* merged list, cached, or [] from the catch, not cached.
Finish(r1, r2) ==
    IF r1.status = "rejected" \/ r2.status = "rejected"
    THEN [status |-> "fulfilled", value |-> << >>, cached |-> FALSE]
    ELSE [status |-> "fulfilled", value |-> MergeMarkers(r1.value, r2.value),
          cached |-> TRUE]

\* A call slot.
IdleCall == [state |-> "idle", key |-> "", r1 |-> Pending, r2 |-> Pending,
             cleared |-> FALSE, overlap |-> FALSE]

\* A response body as convertToSkipMarkers may meet it: IntroHaterResponse has
\* intro and outro, StremioSkipResponse has the flat fields s and e besides;
\* every field is optional, and so is each of start and end.
Half(s, e) == [start |-> s, end |-> e]
AdapterIntros ==
    { Absent, Half(<<1>>, Absent), Half(Absent, <<4>>), Half(Absent, Absent),
      Span(1, 4), Span(6, 3), Span(4, 4) }
AdapterOutros ==
    { Absent, Half(<<15>>, Absent), Span(15, 19), Span(0 - 2, 3) }
AdapterBodies ==
    [ intro : AdapterIntros, outro : AdapterOutros,
      s : { Absent, <<2>> }, e : { Absent, <<5>> } ]
NoBody == [intro |-> Absent, outro |-> Absent, s |-> Absent, e |-> Absent]

\* The observer's record of an aggregator step.
NoEvent == [op |-> "none", key |-> "", status |-> "none", value |-> << >>,
            hadCache |-> NoList, hadTime |-> NoTime,
            r1 |-> Pending, r2 |-> Pending, cleared |-> FALSE, body |-> NoBody,
            overlap |-> FALSE]

\* ----------------------------------------------------- scrobble sequencer
\* updateProgress(currentTime, duration): the positions the caller reports,
\* of a video not loaded yet (duration 0) or loaded.
SamplePositions ==
    { 0, VideoDuration \div 2, (4 * VideoDuration) \div 5, VideoDuration - 1 }

\* (currentTime / duration) * 100, in whole percent: the code compares the
\* quotient with 80, and so does its floor.
Percent(currentTime, dur) == (currentTime * 100) \div dur

\* createScrobbleData: progress: Math.min(100, Math.max(0, progress))
CreateScrobbleData(progress) ==
    IF progress < 0 THEN 0 ELSE IF progress > 100 THEN 100 ELSE progress

\* The async functions of the hook suspended at their await of traktService:
\* scrobbleStart (the fresh start), onPlay (the resume), scrobblePause,
\* scrobbleStop (called by onStop) and updateProgress (the completion report).
Awaits == { "scrobbleStart", "onPlay", "scrobblePause", "scrobbleStop", "updateProgress" }
NoRequests == [a \in Awaits |-> 0]
InFlight(r) ==
    r["scrobbleStart"] + r["onPlay"] + r["scrobblePause"] + r["scrobbleStop"]
      + r["updateProgress"]

\* The observer's record of a step of the sequencer: the refs and the token
\* before the step, the request it sent to traktService, and for a settled
\* request what settled and how.
NoScrobble ==
    [op |-> "none", token |-> FALSE, playing |-> FALSE, started |-> FALSE,
     progress |-> 0, sent |-> "none", payload |-> 0, settled |-> "none",
     ok |-> FALSE, duration |-> 0, percent |-> 0, first |-> FALSE,
     again |-> FALSE, succeeded |-> FALSE]

\* A counter of the observer, which stops at 2.
Count(n) == IF n < 2 THEN n + 1 ELSE n

\* ------------------------------------------------------- Trakt service
\* TraktCredentials as ensureValidToken and refreshAccessToken read them:
\* whether there is an access token and a refresh token, and expiresAt, a
\* number or null.  this.credentials === null reads as no token at all.
NoCredentials == [accessToken |-> FALSE, refreshToken |-> FALSE, expiresAt |-> NoTime]

\* Expiry times: one in the past of every later instant, and three around
\* 60 seconds after the first instants.
ExpiryTimes == { 1, RefreshLead + 1, RefreshLead + 2, RefreshLead + 5 }
ServiceInstants == 0 .. 3

StoredCredentials ==
    [ accessToken : BOOLEAN, refreshToken : BOOLEAN,
      expiresAt : { NoTime } \cup { Entry(e) : e \in ExpiryTimes } ]

\* The test of ensureValidToken without its 60000.
NearExpiryNoLead(c, t) ==
    TruthyNumber(c.expiresAt) /\ t >= c.expiresAt.value

\* this.credentials.expiresAt && Date.now() >= this.credentials.expiresAt - 60000
NearExpiry(c, t) ==
    TruthyNumber(c.expiresAt) /\ t >= c.expiresAt.value - RefreshLead

\* A call of scrobble(action, data): where it stands, and for the observer
\* the credentials and the time it started with, whether it called
\* refreshAccessToken, how the refresh ended, whether it sent the scrobble
\* request, and what it returned.
NoScrobbleCall ==
    [state |-> "idle", had |-> NoCredentials, at |-> 0, refresh |-> "none",
     posted |-> FALSE, result |-> FALSE]

\* The observer's record of a timer callback: which timer, whether it
\* skipped, the player its closure holds and the player of the render.
\* PlayerScreen's useState<SkipMarker[]>([]): no call has set the list yet.
NotLoaded == [key |-> "", value |-> << >>]

NoTimer == [timer |-> "none", skip |-> FALSE, held |-> 0, current |-> 0]

\* settings.skip.globalIntroSkipSeconds / globalCreditsSkipSeconds
ManualIntroChoices == {0, 3}
ManualCreditsChoices == {0, 2}

VARIABLES
    enabledCommunitySkip,   \* skipSettings.enabledCommunitySkip
    enabledManualSkip,      \* skipSettings.enabledManualSkip
    autoSkipEnabled,        \* skipSettings.autoSkipEnabled
    manualIntroSkip,        \* prop manualIntroSkip
    manualCreditsSkip,      \* prop manualCreditsSkip
    communitySkipMarkers,   \* prop communitySkipMarkers
    currentPosition,        \* useState(0)
    duration,               \* useState(0)
    activeSkipMarker,       \* useState<SkipMarker | null>(null)
    autoSkipCountdown,      \* useState<number | undefined>(undefined)
    countdown,              \* let countdown, local of the countdown effect
    intervalLive,           \* autoSkipInterval.current is a running interval
    intervalMarker,         \* activeSkipMarker captured by the interval's handleSkip
    playerTime,             \* player.currentTime as last read or written
    resDirty,               \* a dependency of the resolution effect changed
    cdDirty,                \* a dependency of the countdown effect changed
    ticked,                 \* the last step was a run of the resolution effect
    prevActive,             \* activeSkipMarker seen by that run (NULL otherwise)
    gone,                   \* observer: the marker last skipped or left, not re-entered
    rearmed,                \* observer: the marker a tick since the last event re-entered
    tracked,                \* observer: the marker whose countdown is being followed
    cdTicks,                \* observer: countdown intervals elapsed since it became active
    skipped,                \* observer: the marker skipped since the last position sample
    pressed,                \* observer: what handleSkip saw, in the state right after it
    cancelled,              \* observer: the countdown cut short, until the next one starts
    lateTick,               \* observer: an interval fired after its countdown was cut short
    cache,                  \* CommunitySkipService.cache
    lastFetchTime,          \* CommunitySkipService.lastFetchTime
    now,                    \* Date.now()
    calls,                  \* the calls of getSkipMarkersForEpisode in flight
    aggEvent,               \* observer: the last step of the aggregator
    accessToken,            \* useTrakt: settings.trakt.accessToken is truthy
    lastProgress,           \* useTrakt: lastProgress.current
    hasScrobbledStart,      \* useTrakt: hasScrobbledStart.current
    hasScrobbled80,         \* useTrakt: hasScrobbled80.current
    isPlaying,              \* useTrakt: isPlaying.current, the remote flag
    requests,               \* useTrakt: the awaits on traktService in flight
    traktEvent,             \* observer: the last step of the sequencer
    freshStarts,            \* observer: starts at progress 0 since the last reset
    reports,                \* observer: completion reports since the last reset
    sessionReports,         \* observer: the same since resetScrobbleState was called
    reached80,              \* observer: a sample at 80% or more was processed
    startSucceeded,         \* observer: a fresh start succeeded since the last reset
    credentials,            \* TraktService: this.credentials
    scrobbleCall,           \* TraktService: the call of scrobble in progress
    serviceEvent,           \* observer: the scrobble call that returned last
    mounted,                \* VideoPlayer is mounted
    player,                 \* useVideoPlayer(uri): which player the render has
    samplerPlayer,          \* the player the live position sampler reads, or 0
    intervalPlayer,         \* the player of the live countdown's handleSkip, or 0
    fired,                  \* observer: the timer that fired last
    routeKey,               \* PlayerScreen: imdbId, season, episode of route.params
    loaded                  \* PlayerScreen: communitySkipMarkers and the call it came from

vars == << enabledCommunitySkip, enabledManualSkip, autoSkipEnabled,
           manualIntroSkip, manualCreditsSkip, communitySkipMarkers,
           currentPosition, duration, activeSkipMarker, autoSkipCountdown,
           countdown, intervalLive, intervalMarker, playerTime,
           resDirty, cdDirty, ticked, prevActive, gone, rearmed,
           tracked, cdTicks, skipped, pressed, cancelled, lateTick,
           cache, lastFetchTime, now, calls, aggEvent,
           accessToken, lastProgress, hasScrobbledStart, hasScrobbled80,
           isPlaying, requests, traktEvent, freshStarts, reports,
           sessionReports, reached80, startSucceeded,
           credentials, scrobbleCall, serviceEvent,
           mounted, player, samplerPlayer, intervalPlayer, fired,
           routeKey, loaded >>

lifeVars == << mounted, player, samplerPlayer, intervalPlayer, fired >>

serviceVars == << credentials, scrobbleCall, serviceEvent >>

screenVars == << routeKey, loaded >>

traktVars == << accessToken, lastProgress, hasScrobbledStart, hasScrobbled80,
                isPlaying, requests, traktEvent, freshStarts, reports,
                sessionReports, reached80, startSucceeded >>

aggVars == << cache, lastFetchTime, now, calls, aggEvent >>

settingsVars == << enabledCommunitySkip, enabledManualSkip, autoSkipEnabled,
                   manualIntroSkip, manualCreditsSkip >>

timerVars == << autoSkipCountdown, countdown, intervalLive, intervalMarker >>

IsNull(m) == m.type = "null"

\* Object.is(old, new) as React's setState bail-out sees it: a manual marker
\* is a new object each time, a community marker is the list's object.
SameObject(old, new) ==
    IF IsNull(new) THEN IsNull(old)
    ELSE new.source # "manual" /\ new = old

\* ----------------------------------------------------- resolution effect
\* The test of the community loop for one marker.
CommunityMatch(m, position) ==
    \/ m.type = "intro" /\ position >= m.startTime /\ position < m.endTime
    \/ m.type = "credits" /\ position >= m.startTime - CreditsLead /\ position < m.endTime

\* Indices of the community markers whose test succeeds at position.
MatchingIndices(markers, position) ==
    { i \in 1 .. Len(markers) : CommunityMatch(markers[i], position) }

Min(S) == CHOOSE x \in S : \A y \in S : x <= y
Max(S) == CHOOSE x \in S : \A y \in S : x >= y

\* Mutant of FirstMatch: the loop keeps going and the last match wins.
LastMatch(markers, position) == Max(MatchingIndices(markers, position))

\* for (const marker of communitySkipMarkers): the first marker that passes.
FirstMatch(markers, position) == Min(MatchingIndices(markers, position))

\* The community branch is entered and returns a marker.
CommunityApplies(commOn, markers, position) ==
    commOn /\ Len(markers) > 0 /\ MatchingIndices(markers, position) # {}

\* A run of the effect that calls setActiveSkipMarker with no argument at
\* all, i.e. does not call it.
NoUpdate == [type |-> "noupdate", startTime |-> 0, endTime |-> 0, source |-> "none", ref |-> 0]

\* Mutant of ManualFallback: the tail guard of the manual credits window is
\* missing (position < duration).
ManualFallbackNoTailGuard(manOn, mi, mc, dur, position, active) ==
    IF ~manOn THEN NULL
    ELSE IF mi > 0 /\ position < mi
         THEN Marker("intro", 0, mi, "manual", 0)
    ELSE IF mc > 0 /\ dur > 0
         THEN LET creditsStart == dur - mc
              IN  IF position >= creditsStart - CreditsLead /\ position < dur
                  THEN Marker("credits", creditsStart, dur, "manual", 0)
                  ELSE IF active.type = "credits" THEN NULL ELSE NoUpdate
    ELSE IF active.type = "intro" THEN NULL
    ELSE NoUpdate

\* "Priority 2": the manual fallback, given the active marker of the render.
\* The result is the argument of setActiveSkipMarker, NoUpdate if no branch
\* calls it.
ManualFallback(manOn, mi, mc, dur, position, active) ==
    IF ~manOn THEN NULL
    ELSE IF mi > 0 /\ position < mi
         THEN Marker("intro", 0, mi, "manual", 0)
    ELSE IF mc > 0 /\ dur > 0
         THEN LET creditsStart == dur - mc
              IN  IF position >= creditsStart - CreditsLead /\ position < dur - TailGuard
                  THEN Marker("credits", creditsStart, dur, "manual", 0)
                  ELSE IF active.type = "credits" THEN NULL ELSE NoUpdate
    ELSE IF active.type = "intro" THEN NULL
    ELSE NoUpdate

\* Mutant of Resolve: the manual intro is consulted before the community list.
ResolveManualFirst(dur, position, commOn, markers, manOn, mi, mc, active) ==
    IF dur = 0 THEN NULL
    ELSE IF manOn /\ mi > 0 /\ position < mi
         THEN Marker("intro", 0, mi, "manual", 0)
    ELSE IF CommunityApplies(commOn, markers, position)
         THEN markers[FirstMatch(markers, position)]
    ELSE ManualFallback(manOn, mi, mc, dur, position, active)

\* Mutant of Resolve: the manual fallback is the else-branch of the community
\* branch (a non-empty list with no match yields no marker).
ResolveElseBranch(dur, position, commOn, markers, manOn, mi, mc, active) ==
    IF dur = 0 THEN NULL
    ELSE IF commOn /\ Len(markers) > 0
         THEN IF MatchingIndices(markers, position) # {}
              THEN markers[FirstMatch(markers, position)]
              ELSE NULL
    ELSE ManualFallback(manOn, mi, mc, dur, position, active)

\* Mutant of Resolve: the duration check is missing.
ResolveNoDurationCheck(dur, position, commOn, markers, manOn, mi, mc, active) ==
    IF CommunityApplies(commOn, markers, position)
    THEN markers[FirstMatch(markers, position)]
    ELSE ManualFallback(manOn, mi, mc, dur, position, active)

\* The skip resolution effect: the argument it passes to setActiveSkipMarker
\* (NoUpdate when it returns without calling the setter).
Resolve(dur, position, commOn, markers, manOn, mi, mc, active) ==
    IF dur = 0 THEN NULL
    ELSE IF CommunityApplies(commOn, markers, position)
         THEN markers[FirstMatch(markers, position)]
    ELSE ManualFallback(manOn, mi, mc, dur, position, active)

\* ------------------------------------------------------------------ Init
\* State after the first render of VideoPlayer: every effect is still to run.
\* PlayerScreen mounts the player once its settings are loaded and never
\* changes them afterwards; the community list starts empty.
Init ==
    /\ enabledCommunitySkip \in BOOLEAN
    /\ enabledManualSkip \in BOOLEAN
    /\ autoSkipEnabled \in BOOLEAN
    /\ manualIntroSkip \in ManualIntroChoices
    /\ manualCreditsSkip \in ManualCreditsChoices
    /\ communitySkipMarkers = <<>>
    /\ currentPosition = 0
    /\ duration = 0
    /\ activeSkipMarker = NULL
    /\ autoSkipCountdown = Undefined
    /\ countdown = 0
    /\ intervalLive = FALSE
    /\ intervalMarker = NULL
    /\ playerTime = 0
    /\ resDirty = TRUE
    /\ cdDirty = TRUE
    /\ ticked = FALSE
    /\ prevActive = NULL
    /\ gone = NULL
    /\ rearmed = NULL
    /\ tracked = NULL
    /\ cdTicks = 0
    /\ skipped = NULL
    /\ pressed = << >>
    /\ cancelled = << >>
    /\ lateTick = FALSE
    /\ cache = [k \in Keys |-> NoList]
    /\ lastFetchTime = [k \in Keys |-> NoTime]
    /\ now = 0
    /\ calls = [c \in CallSlots |-> IdleCall]
    /\ aggEvent = NoEvent
    /\ accessToken = FALSE
    /\ lastProgress = 0
    /\ hasScrobbledStart = FALSE
    /\ hasScrobbled80 = FALSE
    /\ isPlaying = FALSE
    /\ requests = NoRequests
    /\ traktEvent = NoScrobble
    /\ freshStarts = 0
    /\ reports = 0
    /\ sessionReports = 0
    /\ reached80 = FALSE
    /\ startSucceeded = FALSE
    /\ credentials = NoCredentials
    /\ scrobbleCall = NoScrobbleCall
    /\ serviceEvent = NoScrobbleCall
    /\ mounted = TRUE
    /\ player = 1
    /\ samplerPlayer = 1
    /\ intervalPlayer = 0
    /\ fired = NoTimer
    /\ routeKey = "tt1_s01e01"
    /\ loaded = NotLoaded

Quiescent == ~resDirty /\ ~cdDirty

\* ---------------------------------------------------------------- actions
\* The 500 ms sampler: setCurrentPosition(player.currentTime);
\* setDuration(player.duration || 0).  The player is external: it may be at
\* any position (playback, seeks) and unloaded or loaded.
Sample ==
    /\ Quiescent
    /\ \E p \in Positions, d \in Durations :
        /\ playerTime' = p
        /\ currentPosition' = p
        /\ duration' = d
        /\ resDirty' = (p # currentPosition \/ d # duration)
    /\ ticked' = FALSE
    /\ prevActive' = NULL
    /\ UNCHANGED << settingsVars, timerVars, communitySkipMarkers,
                    activeSkipMarker, cdDirty >>
    /\ UNCHANGED aggVars
    /\ UNCHANGED traktVars
    /\ UNCHANGED serviceVars
    /\ UNCHANGED screenVars

\* PlayerScreen.loadSkipData: setCommunitySkipMarkers(markers) once the
\* aggregator has answered.
LoadMarkers ==
    /\ Quiescent
    /\ communitySkipMarkers = <<>>
    /\ \E l \in MarkerLists \ { <<>> } : communitySkipMarkers' = l
    /\ resDirty' = TRUE
    /\ ticked' = FALSE
    /\ prevActive' = NULL
    /\ UNCHANGED << settingsVars, timerVars, currentPosition, duration,
                    activeSkipMarker, playerTime, cdDirty >>
    /\ UNCHANGED aggVars
    /\ UNCHANGED traktVars
    /\ UNCHANGED serviceVars
    /\ UNCHANGED screenVars

\* One run of the skip resolution effect.
ResolutionEffect ==
    /\ resDirty
    /\ ~cdDirty
    /\ LET new == Resolve(duration, currentPosition, enabledCommunitySkip,
                          communitySkipMarkers, enabledManualSkip,
                          manualIntroSkip, manualCreditsSkip, activeSkipMarker)
       IN  IF new = NoUpdate
           THEN /\ activeSkipMarker' = activeSkipMarker
                /\ resDirty' = FALSE
                /\ cdDirty' = FALSE
           ELSE /\ activeSkipMarker' = new
                /\ resDirty' = (new.type # activeSkipMarker.type)
                /\ cdDirty' = ~SameObject(activeSkipMarker, new)
    /\ ticked' = TRUE
    /\ prevActive' = activeSkipMarker
    /\ UNCHANGED << settingsVars, timerVars, communitySkipMarkers,
                    currentPosition, duration, playerTime >>
    /\ UNCHANGED aggVars
    /\ UNCHANGED traktVars
    /\ UNCHANGED serviceVars
    /\ UNCHANGED screenVars

\* The countdown effect without the clearInterval of its cleanup.
CountdownEffectNoCleanup ==
    /\ cdDirty
    /\ IF ~IsNull(activeSkipMarker) /\ autoSkipEnabled
       THEN /\ countdown' = CountdownStart
            /\ autoSkipCountdown' = << CountdownStart >>
            /\ intervalLive' = TRUE
            /\ intervalMarker' = activeSkipMarker
       ELSE /\ autoSkipCountdown' = Undefined
            /\ UNCHANGED << countdown, intervalLive, intervalMarker >>
    /\ cdDirty' = FALSE
    /\ ticked' = FALSE
    /\ prevActive' = NULL
    /\ UNCHANGED << settingsVars, communitySkipMarkers, currentPosition,
                    duration, activeSkipMarker, playerTime, resDirty >>
    /\ UNCHANGED aggVars
    /\ UNCHANGED traktVars
    /\ UNCHANGED serviceVars
    /\ UNCHANGED screenVars

\* One run of the auto-skip countdown effect (the cleanup of its previous run
\* has cleared the old interval).
CountdownEffect ==
    /\ cdDirty
    /\ IF ~IsNull(activeSkipMarker) /\ autoSkipEnabled
       THEN /\ countdown' = CountdownStart
            /\ autoSkipCountdown' = << CountdownStart >>
            /\ intervalLive' = TRUE
            /\ intervalMarker' = activeSkipMarker
       ELSE /\ countdown' = 0
            /\ autoSkipCountdown' = Undefined
            /\ intervalLive' = FALSE
            /\ intervalMarker' = NULL
    /\ cdDirty' = FALSE
    /\ ticked' = FALSE
    /\ prevActive' = NULL
    /\ UNCHANGED << settingsVars, communitySkipMarkers, currentPosition,
                    duration, activeSkipMarker, playerTime, resDirty >>
    /\ UNCHANGED aggVars
    /\ UNCHANGED traktVars
    /\ UNCHANGED serviceVars
    /\ UNCHANGED screenVars

\* The 1 s interval callback of the countdown effect; at 0 it calls the
\* handleSkip of the render that created the interval.
CountdownTick ==
    /\ Quiescent
    /\ intervalLive
    /\ countdown' = countdown - 1
    /\ IF countdown - 1 <= 0
       THEN /\ IF ~IsNull(intervalMarker)
               THEN /\ playerTime' = intervalMarker.endTime
                    /\ activeSkipMarker' = NULL
                    /\ cdDirty' = ~IsNull(activeSkipMarker)
                    /\ resDirty' = ~IsNull(activeSkipMarker)
               ELSE UNCHANGED << playerTime, activeSkipMarker, cdDirty, resDirty >>
            /\ autoSkipCountdown' = Undefined
            /\ intervalLive' = FALSE
            /\ intervalMarker' = NULL
       ELSE /\ autoSkipCountdown' = << countdown - 1 >>
            /\ UNCHANGED << playerTime, activeSkipMarker, cdDirty, resDirty,
                            intervalLive, intervalMarker >>
    /\ ticked' = FALSE
    /\ prevActive' = NULL
    /\ UNCHANGED << settingsVars, communitySkipMarkers, currentPosition, duration >>
    /\ UNCHANGED aggVars
    /\ UNCHANGED traktVars
    /\ UNCHANGED serviceVars
    /\ UNCHANGED screenVars

\* handleSkip without its setActiveSkipMarker(null).
HandleSkipKeepsMarker ==
    /\ Quiescent
    /\ IF ~IsNull(activeSkipMarker)
       THEN /\ playerTime' = activeSkipMarker.endTime
            /\ UNCHANGED << activeSkipMarker, cdDirty, resDirty >>
       ELSE UNCHANGED << playerTime, activeSkipMarker, cdDirty, resDirty >>
    /\ ticked' = FALSE
    /\ prevActive' = NULL
    /\ UNCHANGED << settingsVars, timerVars, communitySkipMarkers,
                    currentPosition, duration >>
    /\ UNCHANGED aggVars
    /\ UNCHANGED traktVars
    /\ UNCHANGED serviceVars
    /\ UNCHANGED screenVars

\* handleSkip called from the SkipButton.
HandleSkip ==
    /\ Quiescent
    /\ IF ~IsNull(activeSkipMarker)
       THEN /\ playerTime' = activeSkipMarker.endTime
            /\ activeSkipMarker' = NULL
            /\ cdDirty' = TRUE
            /\ resDirty' = TRUE
       ELSE UNCHANGED << playerTime, activeSkipMarker, cdDirty, resDirty >>
    /\ ticked' = FALSE
    /\ prevActive' = NULL
    /\ UNCHANGED << settingsVars, timerVars, communitySkipMarkers,
                    currentPosition, duration >>
    /\ UNCHANGED aggVars
    /\ UNCHANGED traktVars
    /\ UNCHANGED serviceVars
    /\ UNCHANGED screenVars

rearmVars == << gone, rearmed >>

autoVars == << tracked, cdTicks >>

skipVars == << skipped, pressed >>

cancelVars == << cancelled, lateTick >>

observerVars == << rearmVars, autoVars, skipVars, cancelVars, lifeVars >>

Next ==
    \/ Sample /\ UNCHANGED observerVars
    \/ LoadMarkers /\ UNCHANGED observerVars
    \/ ResolutionEffect /\ UNCHANGED observerVars
    \/ CountdownEffect /\ UNCHANGED observerVars
    \/ CountdownTick /\ UNCHANGED observerVars
    \/ HandleSkip /\ UNCHANGED observerVars

Spec == Init /\ [][Next]_vars

\* ------------------------------------------------- aggregator actions
playerVars == << settingsVars, timerVars, communitySkipMarkers, currentPosition,
                 duration, activeSkipMarker, playerTime, resDirty, cdDirty,
                 ticked, prevActive, observerVars >>

\* getSkipMarkersForEpisode up to its first await: the cached list, or the
\* two provider requests sent.  Up to n calls are in progress at once; overlap
\* records for the observer that a call ran alongside another for its key.
Lookup(k, n) ==
    LET lastFetch == lastFetchTime[k]
        cached    == cache[k]
        seen      == [NoEvent EXCEPT !.key = k, !.hadCache = cached,
                                     !.hadTime = lastFetch]
        Same(b)   == calls[b].state = "fetching" /\ calls[b].key = k
    IN  /\ IF Fresh(cached, lastFetch, now)
           THEN /\ aggEvent' = [seen EXCEPT !.op = "hit", !.status = "fulfilled",
                                            !.value = cached.value]
                /\ calls' = calls
           ELSE /\ \E c \in 1 .. n :
                     /\ calls[c].state = "idle"
                     /\ \A b \in 1 .. c - 1 : calls[b].state # "idle"
                     /\ calls' =
                          [b \in CallSlots |->
                             IF b = c
                             THEN [IdleCall EXCEPT !.state = "fetching", !.key = k,
                                     !.overlap = (\E a \in CallSlots : Same(a))]
                             ELSE IF Same(b) THEN [calls[b] EXCEPT !.overlap = TRUE]
                             ELSE calls[b]]
                /\ aggEvent' = [seen EXCEPT !.op = "miss"]
        /\ UNCHANGED << cache, lastFetchTime, now >>
        /\ UNCHANGED playerVars
        /\ UNCHANGED traktVars
        /\ UNCHANGED serviceVars

\* getSkipMarkersForEpisode while no other call is in progress.
GetSkipMarkersForEpisode(k) == Lookup(k, MaxCalls)

\* The IntroHater request of call c ends.
IntroHaterResponds(c, o) ==
    /\ calls[c].state = "fetching"
    /\ calls[c].r1 = Pending
    /\ calls' = [calls EXCEPT ![c].r1 = Answer(o, GetIntroHaterMarkers(o))]
    /\ aggEvent' = [NoEvent EXCEPT !.op = "response"]
    /\ UNCHANGED << cache, lastFetchTime, now >>
    /\ UNCHANGED playerVars
    /\ UNCHANGED traktVars
    /\ UNCHANGED serviceVars
    /\ UNCHANGED screenVars

\* The Stremio request of call c ends.
StremioResponds(c, o) ==
    /\ calls[c].state = "fetching"
    /\ calls[c].r2 = Pending
    /\ calls' = [calls EXCEPT ![c].r2 = Answer(o, GetStremioSkipMarkers(o))]
    /\ aggEvent' = [NoEvent EXCEPT !.op = "response"]
    /\ UNCHANGED << cache, lastFetchTime, now >>
    /\ UNCHANGED playerVars
    /\ UNCHANGED traktVars
    /\ UNCHANGED serviceVars
    /\ UNCHANGED screenVars

\* The end of a call that adds its list to the cached one instead of
\* replacing it.
FetchCompletesAdding(c) ==
    /\ calls[c].state = "fetching"
    /\ calls[c].r1.status # "pending"
    /\ calls[c].r2.status # "pending"
    /\ LET k   == calls[c].key
           fin == Finish(calls[c].r1, calls[c].r2)
       IN  /\ cache' = IF fin.cached
                       THEN [cache EXCEPT ![k] = Entry(MergeMarkers(cache[k].value, fin.value))]
                       ELSE cache
           /\ lastFetchTime' = IF fin.cached
                               THEN [lastFetchTime EXCEPT ![k] = Entry(now)]
                               ELSE lastFetchTime
           /\ aggEvent' = [NoEvent EXCEPT !.op = "done", !.key = k,
                                          !.status = fin.status,
                                          !.value = fin.value,
                                          !.hadCache = cache[k],
                                          !.hadTime = lastFetchTime[k],
                                          !.r1 = calls[c].r1,
                                          !.r2 = calls[c].r2,
                                          !.cleared = calls[c].cleared,
                                          !.overlap = calls[c].overlap]
    /\ calls' = [calls EXCEPT ![c] = IdleCall]
    /\ now' = now
    /\ UNCHANGED playerVars
    /\ UNCHANGED traktVars
    /\ UNCHANGED serviceVars

\* Promise.all has settled: merge, cache.set, lastFetchTime.set, return.
FetchCompletes(c) ==
    /\ calls[c].state = "fetching"
    /\ calls[c].r1.status # "pending"
    /\ calls[c].r2.status # "pending"
    /\ LET k   == calls[c].key
           fin == Finish(calls[c].r1, calls[c].r2)
       IN  /\ cache' = IF fin.cached
                       THEN [cache EXCEPT ![k] = Entry(fin.value)]
                       ELSE cache
           /\ lastFetchTime' = IF fin.cached
                               THEN [lastFetchTime EXCEPT ![k] = Entry(now)]
                               ELSE lastFetchTime
           /\ aggEvent' = [NoEvent EXCEPT !.op = "done", !.key = k,
                                          !.status = fin.status,
                                          !.value = fin.value,
                                          !.hadCache = cache[k],
                                          !.hadTime = lastFetchTime[k],
                                          !.r1 = calls[c].r1,
                                          !.r2 = calls[c].r2,
                                          !.cleared = calls[c].cleared,
                                          !.overlap = calls[c].overlap]
    /\ calls' = [calls EXCEPT ![c] = IdleCall]
    /\ now' = now
    /\ UNCHANGED playerVars
    /\ UNCHANGED traktVars
    /\ UNCHANGED serviceVars

\* clearCache without its this.lastFetchTime.clear().
ClearCacheKeepsTimes ==
    /\ cache' = [k \in Keys |-> NoList]
    /\ lastFetchTime' = lastFetchTime
    /\ calls' = [c \in CallSlots |->
                   IF calls[c].state = "fetching"
                   THEN [calls[c] EXCEPT !.cleared = TRUE]
                   ELSE calls[c]]
    /\ aggEvent' = [NoEvent EXCEPT !.op = "clear"]
    /\ now' = now
    /\ UNCHANGED playerVars
    /\ UNCHANGED traktVars
    /\ UNCHANGED serviceVars
    /\ UNCHANGED screenVars

\* clearCache: this.cache.clear(); this.lastFetchTime.clear().
ClearCache ==
    /\ cache' = [k \in Keys |-> NoList]
    /\ lastFetchTime' = [k \in Keys |-> NoTime]
    /\ calls' = [c \in CallSlots |->
                   IF calls[c].state = "fetching"
                   THEN [calls[c] EXCEPT !.cleared = TRUE]
                   ELSE calls[c]]
    /\ aggEvent' = [NoEvent EXCEPT !.op = "clear"]
    /\ now' = now
    /\ UNCHANGED playerVars
    /\ UNCHANGED traktVars
    /\ UNCHANGED serviceVars
    /\ UNCHANGED screenVars

\* Time passes.
ClockAdvances ==
    /\ \E t \in Instants : t > now /\ now' = t
    /\ aggEvent' = [NoEvent EXCEPT !.op = "tick"]
    /\ UNCHANGED << cache, lastFetchTime, calls >>
    /\ UNCHANGED playerVars
    /\ UNCHANGED traktVars
    /\ UNCHANGED serviceVars
    /\ UNCHANGED screenVars

NextAgg ==
    \/ \E k \in Keys : GetSkipMarkersForEpisode(k) /\ UNCHANGED screenVars
    \/ \E c \in 1 .. MaxCalls, o \in ProviderOutcomes : IntroHaterResponds(c, o)
    \/ \E c \in 1 .. MaxCalls, o \in ProviderOutcomes : StremioResponds(c, o)
    \/ \E c \in 1 .. MaxCalls : FetchCompletes(c) /\ UNCHANGED screenVars
    \/ ClearCache
    \/ ClockAdvances

\* The aggregator alone: the player's settings play no part in it.
InitAgg ==
    /\ Init
    /\ enabledCommunitySkip = TRUE
    /\ enabledManualSkip = TRUE
    /\ autoSkipEnabled = TRUE
    /\ manualIntroSkip = 0
    /\ manualCreditsSkip = 0

SpecAgg == InitAgg /\ [][NextAgg]_vars

\* One episode fetched over and over, every pair of provider bodies merged.
NextMerge ==
    \/ GetSkipMarkersForEpisode("tt1_s01e01") /\ UNCHANGED screenVars
    \/ \E o \in MergeOutcomes : IntroHaterResponds(1, o)
    \/ \E o \in MergeOutcomes : StremioResponds(1, o)
    \/ FetchCompletes(1) /\ UNCHANGED screenVars

SpecMerge == InitAgg /\ [][NextMerge]_vars

\* Two calls for one episode at once, the providers answering each with one
\* of two bodies or not at all, the clock moving on meanwhile.
OverlapOutcomes ==
    { Outcome("ok", [intro |-> Span(1, 4), outro |-> Absent]),
      Outcome("ok", [intro |-> Span(3, 6), outro |-> Span(15, 19)]),
      Outcome("network", EmptyBody) }

NextOverlap ==
    \/ Lookup("tt1_s01e01", 2) /\ UNCHANGED screenVars
    \/ \E c \in CallSlots, o \in OverlapOutcomes : IntroHaterResponds(c, o)
    \/ \E c \in CallSlots, o \in OverlapOutcomes : StremioResponds(c, o)
    \/ \E c \in CallSlots : FetchCompletes(c) /\ UNCHANGED screenVars
    \/ ClockAdvances

SpecOverlap == InitAgg /\ [][NextOverlap]_vars

\* ------------------------------------------------------- PlayerScreen
\* The loadSkipData effect, run at mount and when the episode of route.params
\* changes, with community skip enabled: it calls the aggregator and, unless
\* the cache answers at once, leaves the call in flight.
LoadSkipData(k) ==
    /\ routeKey' = k
    /\ Lookup(k, 2)
    /\ loaded' = IF Fresh(cache[k], lastFetchTime[k], now)
                 THEN [key |-> k, value |-> cache[k].value]
                 ELSE loaded

\* The rest of loadSkipData once its call has returned:
\* setCommunitySkipMarkers(markers), whatever the episode is by then.
SetCommunitySkipMarkers(c) ==
    /\ FetchCompletes(c)
    /\ loaded' = [key |-> aggEvent'.key, value |-> aggEvent'.value]
    /\ routeKey' = routeKey

ScreenOutcomes ==
    { Outcome("ok", [intro |-> Span(1, 4), outro |-> Absent]),
      Outcome("network", EmptyBody) }

NextScreen ==
    \/ \E k \in Keys : LoadSkipData(k)
    \/ \E c \in CallSlots, o \in ScreenOutcomes : IntroHaterResponds(c, o)
    \/ \E c \in CallSlots, o \in ScreenOutcomes : StremioResponds(c, o)
    \/ \E c \in CallSlots : SetCommunitySkipMarkers(c)
    \/ ClockAdvances

\* The screen going from episode to episode while the aggregator fetches.
SpecScreen == InitAgg /\ [][NextScreen]_vars

\* ------------------------------------------- providers that may not answer
\* The provider of a request of call c turns out never to answer.
IntroHaterSilent(c) ==
    /\ calls[c].state = "fetching"
    /\ calls[c].r1 = Pending
    /\ calls' = [calls EXCEPT ![c].r1 = Silent]
    /\ aggEvent' = [NoEvent EXCEPT !.op = "silent"]
    /\ UNCHANGED << cache, lastFetchTime, now >>
    /\ UNCHANGED playerVars
    /\ UNCHANGED traktVars
    /\ UNCHANGED serviceVars
    /\ UNCHANGED screenVars

StremioSilent(c) ==
    /\ calls[c].state = "fetching"
    /\ calls[c].r2 = Pending
    /\ calls' = [calls EXCEPT ![c].r2 = Silent]
    /\ aggEvent' = [NoEvent EXCEPT !.op = "silent"]
    /\ UNCHANGED << cache, lastFetchTime, now >>
    /\ UNCHANGED playerVars
    /\ UNCHANGED traktVars
    /\ UNCHANGED serviceVars
    /\ UNCHANGED screenVars

NextWait ==
    \/ GetSkipMarkersForEpisode("tt1_s01e01") /\ UNCHANGED screenVars
    \/ \E o \in ProviderOutcomes : IntroHaterResponds(1, o)
    \/ \E o \in ProviderOutcomes : StremioResponds(1, o)
    \/ IntroHaterSilent(1)
    \/ StremioSilent(1)
    \/ FetchCompletes(1) /\ UNCHANGED screenVars
    \/ ClockAdvances

\* Whatever can happen does happen: a request either is answered or is one
\* that never will be, settled promises are resumed, and time passes.
SpecWait ==
    /\ InitAgg
    /\ [][NextWait]_vars
    /\ WF_vars(\E o \in ProviderOutcomes : IntroHaterResponds(1, o))
    /\ WF_vars(\E o \in ProviderOutcomes : StremioResponds(1, o))
    /\ WF_vars(IntroHaterSilent(1))
    /\ WF_vars(StremioSilent(1))
    /\ WF_vars(FetchCompletes(1) /\ UNCHANGED screenVars)
    /\ WF_vars(ClockAdvances)

\* ------------------------------------------------- the adapter on its own
\* A provider's body arrives: response.json() has been read.
ReceiveBody(b) ==
    /\ aggEvent.op # "body"
    /\ aggEvent' = [NoEvent EXCEPT !.op = "body", !.body = b]
    /\ UNCHANGED << cache, lastFetchTime, now, calls >>
    /\ UNCHANGED playerVars
    /\ UNCHANGED traktVars
    /\ UNCHANGED serviceVars
    /\ UNCHANGED screenVars

\* return this.convertToSkipMarkers(data, ...)
ConvertBody ==
    /\ aggEvent.op = "body"
    /\ aggEvent' = [aggEvent EXCEPT !.op = "converted",
                                    !.value = ConvertToSkipMarkers(aggEvent.body)]
    /\ UNCHANGED << cache, lastFetchTime, now, calls >>
    /\ UNCHANGED playerVars
    /\ UNCHANGED traktVars
    /\ UNCHANGED serviceVars
    /\ UNCHANGED screenVars

NextAdapter ==
    \/ \E b \in AdapterBodies : ReceiveBody(b)
    \/ ConvertBody

SpecAdapter == InitAgg /\ [][NextAdapter]_vars

\* ----------------------------------------------------- scrobble sequencer
\* The hook useTrakt.  Its callers may call onPlay, onPause, onStop,
\* updateProgress and resetScrobbleState in any order and at any time, also
\* while an earlier call is suspended at its await; traktService.scrobble*
\* resolves to true or false and never rejects.  The token is read from the
\* settings state at each render, and each callback is rebuilt when it
\* changes.
Observed(op) ==
    [NoScrobble EXCEPT !.op = op, !.token = accessToken, !.playing = isPlaying,
                       !.started = hasScrobbledStart, !.progress = lastProgress,
                       !.succeeded = startSucceeded]

Sent(op, action, progress) ==
    [Observed(op) EXCEPT !.sent = action, !.payload = CreateScrobbleData(progress)]

Room == InFlight(requests) < MaxInFlight
Suspend(a) == [requests EXCEPT ![a] = @ + 1]
Resume(a) == [requests EXCEPT ![a] = @ - 1]

refVars == << lastProgress, hasScrobbledStart, hasScrobbled80, isPlaying >>
sessionVars == << freshStarts, reports, reached80, startSucceeded >>
otherVars == << playerVars, aggVars, serviceVars, screenVars >>

\* resetScrobbleState: the three refs it writes, and the observer's session.
ClearRefs ==
    /\ hasScrobbledStart' = FALSE
    /\ hasScrobbled80' = FALSE
    /\ lastProgress' = 0
    /\ freshStarts' = 0
    /\ reports' = 0
    /\ reached80' = FALSE
    /\ startSucceeded' = FALSE

\* The settings state changes: a token is stored or removed.
SetSettings ==
    /\ accessToken' = ~accessToken
    /\ traktEvent' = Observed("setSettings")
    /\ UNCHANGED << refVars, requests, sessionVars, sessionReports >>
    /\ UNCHANGED otherVars

\* resetScrobbleState(), called by the caller.
ResetScrobbleState ==
    /\ ClearRefs
    /\ sessionReports' = 0
    /\ traktEvent' = Observed("resetScrobbleState")
    /\ UNCHANGED << accessToken, isPlaying, requests >>
    /\ UNCHANGED otherVars

\* onPlay up to its await: scrobbleStart() when no start was recorded, the
\* start at lastProgress.current when one was and the flag is false.
OnPlay ==
    /\ IF ~hasScrobbledStart
       THEN IF ~accessToken
            THEN /\ traktEvent' = Observed("onPlay")
                 /\ UNCHANGED << requests, freshStarts >>
            ELSE /\ Room
                 /\ requests' = Suspend("scrobbleStart")
                 /\ freshStarts' = Count(freshStarts)
                 /\ traktEvent' = Sent("onPlay", "start", 0)
       ELSE IF ~isPlaying
            THEN /\ Room
                 /\ requests' = Suspend("onPlay")
                 /\ traktEvent' = Sent("onPlay", "start", lastProgress)
                 /\ UNCHANGED freshStarts
            ELSE /\ traktEvent' = Observed("onPlay")
                 /\ UNCHANGED << requests, freshStarts >>
    /\ UNCHANGED << accessToken, refVars, reports, reached80, startSucceeded,
                    sessionReports >>
    /\ UNCHANGED otherVars

\* scrobbleStart after its await: if (success) both refs are set.
StartSettles(success) ==
    /\ requests["scrobbleStart"] > 0
    /\ requests' = Resume("scrobbleStart")
    /\ IF success
       THEN /\ hasScrobbledStart' = TRUE
            /\ isPlaying' = TRUE
            /\ startSucceeded' = TRUE
       ELSE UNCHANGED << hasScrobbledStart, isPlaying, startSucceeded >>
    /\ traktEvent' = [Observed("settle") EXCEPT !.settled = "scrobbleStart",
                                                !.ok = success]
    /\ UNCHANGED << accessToken, lastProgress, hasScrobbled80, freshStarts,
                    reports, reached80, sessionReports >>
    /\ UNCHANGED otherVars

\* onPlay after the await of its resume: isPlaying.current = true.
ResumeSettles(success) ==
    /\ requests["onPlay"] > 0
    /\ requests' = Resume("onPlay")
    /\ isPlaying' = TRUE
    /\ traktEvent' = [Observed("settle") EXCEPT !.settled = "onPlay", !.ok = success]
    /\ UNCHANGED << accessToken, lastProgress, hasScrobbledStart, hasScrobbled80,
                    sessionVars, sessionReports >>
    /\ UNCHANGED otherVars

\* onPause up to its await: scrobblePause(lastProgress.current).
OnPause ==
    /\ IF ~accessToken \/ ~isPlaying
       THEN /\ traktEvent' = Observed("onPause")
            /\ UNCHANGED requests
       ELSE /\ Room
            /\ requests' = Suspend("scrobblePause")
            /\ traktEvent' =
                 [Sent("onPause", "pause", lastProgress) EXCEPT
                    !.again = (traktEvent.op = "onPause" /\ traktEvent.sent = "pause")]
    /\ UNCHANGED << accessToken, refVars, sessionVars, sessionReports >>
    /\ UNCHANGED otherVars

\* scrobblePause after its await: isPlaying.current = false.
PauseSettles(success) ==
    /\ requests["scrobblePause"] > 0
    /\ requests' = Resume("scrobblePause")
    /\ isPlaying' = FALSE
    /\ traktEvent' = [Observed("settle") EXCEPT !.settled = "scrobblePause",
                                                !.ok = success]
    /\ UNCHANGED << accessToken, lastProgress, hasScrobbledStart, hasScrobbled80,
                    sessionVars, sessionReports >>
    /\ UNCHANGED otherVars

\* onStop with a stop that is attempted only while the flag is true.
OnStopIfPlaying ==
    /\ IF ~accessToken \/ ~isPlaying
       THEN /\ ClearRefs
            /\ traktEvent' = Observed("onStop")
            /\ UNCHANGED requests
       ELSE /\ Room
            /\ requests' = Suspend("scrobbleStop")
            /\ traktEvent' = Sent("onStop", "stop", lastProgress)
            /\ UNCHANGED << lastProgress, hasScrobbledStart, hasScrobbled80,
                            sessionVars >>
    /\ UNCHANGED << accessToken, isPlaying, sessionReports >>
    /\ UNCHANGED otherVars

\* onStop up to its await: scrobbleStop(lastProgress.current), which returns
\* at once without a token, and then resetScrobbleState().
OnStop ==
    /\ IF ~accessToken
       THEN /\ ClearRefs
            /\ traktEvent' = Observed("onStop")
            /\ UNCHANGED requests
       ELSE /\ Room
            /\ requests' = Suspend("scrobbleStop")
            /\ traktEvent' = Sent("onStop", "stop", lastProgress)
            /\ UNCHANGED << lastProgress, hasScrobbledStart, hasScrobbled80,
                            sessionVars >>
    /\ UNCHANGED << accessToken, isPlaying, sessionReports >>
    /\ UNCHANGED otherVars

\* scrobbleStop after its await: isPlaying.current = false; then onStop
\* goes on with resetScrobbleState().
StopSettles(success) ==
    /\ requests["scrobbleStop"] > 0
    /\ requests' = Resume("scrobbleStop")
    /\ isPlaying' = FALSE
    /\ ClearRefs
    /\ traktEvent' = [Observed("settle") EXCEPT !.settled = "scrobbleStop",
                                                !.ok = success]
    /\ UNCHANGED << accessToken, sessionReports >>
    /\ UNCHANGED otherVars

\* updateProgress without hasScrobbled80.current = true.
UpdateProgressNoLatch(currentTime, dur) ==
    /\ IF ~accessToken \/ dur = 0
       THEN /\ traktEvent' = [Observed("updateProgress") EXCEPT !.duration = dur]
            /\ UNCHANGED << lastProgress, hasScrobbled80, requests, reports,
                            sessionReports, reached80 >>
       ELSE LET progress == Percent(currentTime, dur)
                seen == [Observed("updateProgress") EXCEPT
                           !.duration = dur, !.percent = progress,
                           !.first = ~reached80]
            IN  /\ lastProgress' = progress
                /\ reached80' = (reached80 \/ progress >= CompletionPercent)
                /\ IF progress >= CompletionPercent /\ ~hasScrobbled80
                   THEN /\ Room
                        /\ UNCHANGED hasScrobbled80
                        /\ requests' = Suspend("updateProgress")
                        /\ reports' = Count(reports)
                        /\ sessionReports' = Count(sessionReports)
                        /\ traktEvent' =
                             [seen EXCEPT !.sent = "stop",
                                          !.payload = CreateScrobbleData(progress)]
                   ELSE /\ traktEvent' = seen
                        /\ UNCHANGED << hasScrobbled80, requests, reports,
                                        sessionReports >>
    /\ UNCHANGED << accessToken, hasScrobbledStart, isPlaying, freshStarts,
                    startSucceeded >>
    /\ UNCHANGED otherVars

\* updateProgress up to its await.
UpdateProgress(currentTime, dur) ==
    /\ IF ~accessToken \/ dur = 0
       THEN /\ traktEvent' = [Observed("updateProgress") EXCEPT !.duration = dur]
            /\ UNCHANGED << lastProgress, hasScrobbled80, requests, reports,
                            sessionReports, reached80 >>
       ELSE LET progress == Percent(currentTime, dur)
                seen == [Observed("updateProgress") EXCEPT
                           !.duration = dur, !.percent = progress,
                           !.first = ~reached80]
            IN  /\ lastProgress' = progress
                /\ reached80' = (reached80 \/ progress >= CompletionPercent)
                /\ IF progress >= CompletionPercent /\ ~hasScrobbled80
                   THEN /\ Room
                        /\ hasScrobbled80' = TRUE
                        /\ requests' = Suspend("updateProgress")
                        /\ reports' = Count(reports)
                        /\ sessionReports' = Count(sessionReports)
                        /\ traktEvent' =
                             [seen EXCEPT !.sent = "stop",
                                          !.payload = CreateScrobbleData(progress)]
                   ELSE /\ traktEvent' = seen
                        /\ UNCHANGED << hasScrobbled80, requests, reports,
                                        sessionReports >>
    /\ UNCHANGED << accessToken, hasScrobbledStart, isPlaying, freshStarts,
                    startSucceeded >>
    /\ UNCHANGED otherVars

\* updateProgress after the await of its report: nothing is left to do.
ReportSettles(success) ==
    /\ requests["updateProgress"] > 0
    /\ requests' = Resume("updateProgress")
    /\ traktEvent' = [Observed("settle") EXCEPT !.settled = "updateProgress",
                                                !.ok = success]
    /\ UNCHANGED << accessToken, refVars, sessionVars, sessionReports >>
    /\ UNCHANGED otherVars

NextTrakt ==
    \/ SetSettings
    \/ ResetScrobbleState
    \/ OnPlay
    \/ \E success \in BOOLEAN : StartSettles(success)
    \/ \E success \in BOOLEAN : ResumeSettles(success)
    \/ OnPause
    \/ \E success \in BOOLEAN : PauseSettles(success)
    \/ OnStop
    \/ \E success \in BOOLEAN : StopSettles(success)
    \/ \E currentTime \in SamplePositions, dur \in Durations :
         UpdateProgress(currentTime, dur)
    \/ \E success \in BOOLEAN : ReportSettles(success)

SpecTrakt == InitAgg /\ [][NextTrakt]_vars

\* ------------------------------------------------------- Trakt service
restOfService == << playerVars, traktVars, cache, lastFetchTime, calls, aggEvent,
                   screenVars >>

\* initialize() and saveTokens(): this.credentials takes what the storage or
\* the token endpoint holds.
LoadCredentials(c) ==
    /\ scrobbleCall.state = "idle"
    /\ credentials' = c
    /\ UNCHANGED << scrobbleCall, serviceEvent, now >>
    /\ UNCHANGED restOfService

\* Date.now() moves on.
ServiceClock ==
    /\ \E t \in ServiceInstants : t > now /\ now' = t
    /\ UNCHANGED serviceVars
    /\ UNCHANGED screenVars
    /\ UNCHANGED restOfService

\* scrobble(action, data) up to its first request: ensureValidToken, and
\* within it refreshAccessToken up to its fetch.
Scrobble ==
    /\ scrobbleCall.state = "idle"
    /\ LET call == [NoScrobbleCall EXCEPT !.had = credentials, !.at = now]
       IN  IF ~credentials.accessToken
           THEN /\ serviceEvent' = [call EXCEPT !.state = "returned"]
                /\ UNCHANGED scrobbleCall
           ELSE IF NearExpiry(credentials, now)
           THEN IF ~credentials.refreshToken
                THEN /\ serviceEvent' = [call EXCEPT !.state = "returned",
                                                     !.refresh = "unsent"]
                     /\ UNCHANGED scrobbleCall
                ELSE /\ scrobbleCall' = [call EXCEPT !.state = "refreshing"]
                     /\ UNCHANGED serviceEvent
           ELSE /\ scrobbleCall' = [call EXCEPT !.state = "posting", !.posted = TRUE]
                /\ UNCHANGED serviceEvent
    /\ UNCHANGED << credentials, now >>
    /\ UNCHANGED restOfService

\* The fetch of refreshAccessToken ends: thrown or not ok, the call returns
\* false; ok, the new credentials are stored and the scrobble request goes
\* out.
RefreshResponds(ok, expiry) ==
    /\ scrobbleCall.state = "refreshing"
    /\ IF ok
       THEN /\ credentials' = [accessToken |-> TRUE, refreshToken |-> TRUE,
                               expiresAt |-> Entry(expiry)]
            /\ scrobbleCall' = [scrobbleCall EXCEPT !.state = "posting",
                                                    !.refresh = "ok",
                                                    !.posted = TRUE]
            /\ UNCHANGED serviceEvent
       ELSE /\ serviceEvent' = [scrobbleCall EXCEPT !.state = "returned",
                                                    !.refresh = "failed"]
            /\ scrobbleCall' = NoScrobbleCall
            /\ UNCHANGED credentials
    /\ UNCHANGED now
    /\ UNCHANGED restOfService

\* The fetch of scrobble ends: true if response.ok, false otherwise.
ScrobbleResponds(ok) ==
    /\ scrobbleCall.state = "posting"
    /\ serviceEvent' = [scrobbleCall EXCEPT !.state = "returned", !.result = ok]
    /\ scrobbleCall' = NoScrobbleCall
    /\ UNCHANGED << credentials, now >>
    /\ UNCHANGED restOfService

NextService ==
    \/ \E c \in StoredCredentials : LoadCredentials(c)
    \/ ServiceClock
    \/ Scrobble
    \/ \E ok \in BOOLEAN, expiry \in ExpiryTimes : RefreshResponds(ok, expiry)
    \/ \E ok \in BOOLEAN : ScrobbleResponds(ok)

SpecService == InitAgg /\ [][NextService]_vars

\* ------------------------------------------- vocabulary of the claims
\* A state with ticked = TRUE is the state right after a resolution tick:
\* position, duration, list and settings are the tick's inputs, prevActive is
\* the marker active before it.

\* The activation window of a marker as the specification states it.
WindowContains(m, p, dur) ==
    CASE m.type = "intro" -> m.startTime <= p /\ p < m.endTime
      [] m.type = "credits" /\ m.source = "manual" ->
            m.startTime - 10 <= p /\ p < dur - 5
      [] m.type = "credits" -> m.startTime - 10 <= p /\ p < m.endTime
      [] OTHER -> FALSE

\* Indices of the community markers whose activation window contains p.
WindowIndices(p) ==
    { i \in 1 .. Len(communitySkipMarkers) :
        WindowContains(communitySkipMarkers[i], p, duration) }

\* No community marker matches (community skip off, or no window contains p).
NoCommunityMatch == ~enabledCommunitySkip \/ WindowIndices(currentPosition) = {}

\* The manual intro branch applies at the position.
ManualIntroApplies ==
    enabledManualSkip /\ manualIntroSkip > 0 /\ currentPosition < manualIntroSkip

\* The position is inside the manual credits window.
InManualCreditsWindow ==
    /\ manualCreditsSkip > 0
    /\ duration - manualCreditsSkip - 10 <= currentPosition
    /\ currentPosition < duration - 5

ManualCreditsApplies ==
    enabledManualSkip /\ ~ManualIntroApplies /\ InManualCreditsWindow

ManualIntroMarker == Marker("intro", 0, manualIntroSkip, "manual", 0)
ManualCreditsMarker ==
    Marker("credits", duration - manualCreditsSkip, duration, "manual", 0)

\* The resolution order selects g at p when no marker of higher priority
\* has a window containing p.
Selected(g, p) ==
    IF g.source = "fingerprint"
    THEN enabledCommunitySkip /\ \A j \in WindowIndices(p) : j >= g.ref
    ELSE /\ enabledManualSkip
         /\ NoCommunityMatch
         /\ g.type = "credits" => ~ManualIntroApplies

\* ------------------------------------------------- the re-arming observer
\* The observer at a run of the resolution effect: the marker of the render
\* is "left" when the position is outside its window; a marker that is gone
\* is re-entered when the position is inside its window again and the
\* resolution order selects it.
ObserveTick ==
    LET leftNow == /\ ~IsNull(activeSkipMarker)
                   /\ ~WindowContains(activeSkipMarker, currentPosition, duration)
        backIn  == /\ ~IsNull(gone)
                   /\ duration > 0
                   /\ WindowContains(gone, currentPosition, duration)
                   /\ Selected(gone, currentPosition)
    IN  /\ rearmed' = IF backIn THEN gone ELSE rearmed
        /\ gone' = IF leftNow THEN activeSkipMarker
                   ELSE IF backIn THEN NULL
                   ELSE gone

\* The observer at a skip: the skipped marker is gone.
ObserveSkip(m) ==
    /\ rearmed' = NULL
    /\ gone' = IF IsNull(m) THEN gone ELSE m

\* The observer at any other event.
ObserveEvent ==
    /\ rearmed' = NULL
    /\ gone' = gone

NextRearm ==
    \/ Sample /\ ObserveEvent /\ UNCHANGED << autoVars, skipVars, cancelVars, lifeVars >>
    \/ LoadMarkers /\ ObserveEvent /\ UNCHANGED << autoVars, skipVars, cancelVars, lifeVars >>
    \/ ResolutionEffect /\ ObserveTick /\ UNCHANGED << autoVars, skipVars, cancelVars, lifeVars >>
    \/ CountdownEffect /\ UNCHANGED observerVars
    \/ CountdownTick /\ ObserveSkip(IF countdown - 1 <= 0 THEN intervalMarker ELSE NULL)
                     /\ UNCHANGED << autoVars, skipVars, cancelVars, lifeVars >>
    \/ HandleSkip /\ ObserveSkip(activeSkipMarker) /\ UNCHANGED << autoVars, skipVars, cancelVars, lifeVars >>

\* The player with auto-skip on, observed for re-arming.
InitRearm == Init /\ autoSkipEnabled = TRUE

SpecRearm == InitRearm /\ [][NextRearm]_vars

\* ------------------------------------------- observer of the auto-skip
\* A marker is followed from the tick that makes it active out of null with
\* auto-skip on, for as long as every tick finds the position inside its
\* window with the resolution order selecting it; cdTicks counts the countdown
\* intervals that elapse meanwhile.  A user skip, a list load or the step after
\* the third interval ends the observation.
AutoTick ==
    LET keep == /\ ~IsNull(tracked)
                /\ cdTicks < CountdownStart
                /\ duration > 0
                /\ WindowContains(tracked, currentPosition, duration)
                /\ Selected(tracked, currentPosition)
        becomesActive == /\ autoSkipEnabled
                         /\ IsNull(activeSkipMarker)
                         /\ ~IsNull(activeSkipMarker')
    IN  /\ tracked' = IF keep THEN tracked
                      ELSE IF becomesActive THEN activeSkipMarker'
                      ELSE NULL
        /\ cdTicks' = IF keep THEN cdTicks ELSE 0

AutoKeep ==
    IF cdTicks < CountdownStart
    THEN UNCHANGED autoVars
    ELSE tracked' = NULL /\ cdTicks' = 0

AutoInterval ==
    IF ~IsNull(tracked) /\ cdTicks < CountdownStart
    THEN tracked' = tracked /\ cdTicks' = cdTicks + 1
    ELSE tracked' = NULL /\ cdTicks' = 0

AutoEnd ==
    /\ tracked' = NULL
    /\ cdTicks' = 0

NextAuto ==
    \/ Sample /\ AutoKeep /\ UNCHANGED << rearmVars, skipVars, cancelVars, lifeVars >>
    \/ LoadMarkers /\ AutoEnd /\ UNCHANGED << rearmVars, skipVars, cancelVars, lifeVars >>
    \/ ResolutionEffect /\ AutoTick /\ UNCHANGED << rearmVars, skipVars, cancelVars, lifeVars >>
    \/ CountdownEffect /\ AutoKeep /\ UNCHANGED << rearmVars, skipVars, cancelVars, lifeVars >>
    \/ CountdownTick /\ AutoInterval /\ UNCHANGED << rearmVars, skipVars, cancelVars, lifeVars >>
    \/ HandleSkip /\ AutoEnd /\ UNCHANGED << rearmVars, skipVars, cancelVars, lifeVars >>

\* The player with auto-skip on, observed for the auto-skip.
SpecAuto == InitRearm /\ [][NextAuto]_vars

\* ------------------------------------------------- observer of the skips
\* skipped is the marker a skip (by the button or by the countdown) has
\* jumped over, until the sampler reads the position again; pressed records,
\* in the state right after handleSkip, the marker, the player position, the
\* countdown and the interval the call found.
NoPress == << >>

SkipSample ==
    /\ skipped' = NULL
    /\ pressed' = NoPress

SkipOther ==
    /\ skipped' = skipped
    /\ pressed' = NoPress

SkipInterval ==
    /\ skipped' = IF countdown - 1 <= 0 /\ ~IsNull(intervalMarker)
                  THEN intervalMarker
                  ELSE skipped
    /\ pressed' = NoPress

SkipPress ==
    /\ skipped' = IF IsNull(activeSkipMarker) THEN skipped ELSE activeSkipMarker
    /\ pressed' = [ m |-> activeSkipMarker, pt |-> playerTime,
                    cd |-> autoSkipCountdown, live |-> intervalLive ]

NextSkip ==
    \/ Sample /\ SkipSample /\ UNCHANGED << rearmVars, autoVars, cancelVars, lifeVars >>
    \/ LoadMarkers /\ SkipOther /\ UNCHANGED << rearmVars, autoVars, cancelVars, lifeVars >>
    \/ ResolutionEffect /\ SkipOther /\ UNCHANGED << rearmVars, autoVars, cancelVars, lifeVars >>
    \/ CountdownEffect /\ SkipOther /\ UNCHANGED << rearmVars, autoVars, cancelVars, lifeVars >>
    \/ CountdownTick /\ SkipInterval /\ UNCHANGED << rearmVars, autoVars, cancelVars, lifeVars >>
    \/ HandleSkip /\ SkipPress /\ UNCHANGED << rearmVars, autoVars, cancelVars, lifeVars >>

\* The player, auto-skip on or off, observed for its skips.
SpecSkip == Init /\ [][NextSkip]_vars

\* ------------------------------------------ observer of cancellations
\* The player re-rendered with the other value of skipSettings.autoSkipEnabled,
\* a dependency of the countdown effect.  PlayerScreen never passes a changed
\* value, so only the specification of the cancellations takes this step.
SetAutoSkip ==
    /\ Quiescent
    /\ autoSkipEnabled' = ~autoSkipEnabled
    /\ cdDirty' = TRUE
    /\ ticked' = FALSE
    /\ prevActive' = NULL
    /\ UNCHANGED << enabledCommunitySkip, enabledManualSkip, manualIntroSkip,
                    manualCreditsSkip, timerVars, communitySkipMarkers,
                    currentPosition, duration, activeSkipMarker, playerTime,
                    resDirty >>
    /\ UNCHANGED aggVars
    /\ UNCHANGED traktVars
    /\ UNCHANGED serviceVars
    /\ UNCHANGED screenVars

\* cancelled records a countdown that was running (1 or more left) when the
\* marker became null or auto-skip was turned off, until the next countdown
\* starts; lateTick tells whether an interval fired meanwhile.
NoCancel == << >>

CancelTick ==
    /\ cancelled' = IF /\ intervalLive
                       /\ countdown >= 1
                       /\ ~IsNull(activeSkipMarker)
                       /\ IsNull(activeSkipMarker')
                    THEN [ cd |-> countdown, why |-> "null" ]
                    ELSE cancelled
    /\ lateTick' = lateTick

CancelOff ==
    /\ cancelled' = IF intervalLive /\ countdown >= 1 /\ autoSkipEnabled
                    THEN [ cd |-> countdown, why |-> "off" ]
                    ELSE cancelled
    /\ lateTick' = lateTick

CancelEffect ==
    IF ~IsNull(activeSkipMarker) /\ autoSkipEnabled
    THEN cancelled' = NoCancel /\ lateTick' = FALSE
    ELSE UNCHANGED cancelVars

CancelInterval ==
    /\ cancelled' = cancelled
    /\ lateTick' = ( lateTick \/ cancelled # NoCancel )

NextCancel ==
    \/ Sample /\ UNCHANGED observerVars
    \/ LoadMarkers /\ UNCHANGED observerVars
    \/ ResolutionEffect /\ CancelTick /\ UNCHANGED << rearmVars, autoVars, skipVars, lifeVars >>
    \/ CountdownEffect /\ CancelEffect /\ UNCHANGED << rearmVars, autoVars, skipVars, lifeVars >>
    \/ CountdownTick /\ CancelInterval /\ UNCHANGED << rearmVars, autoVars, skipVars, lifeVars >>
    \/ HandleSkip /\ UNCHANGED observerVars
    \/ SetAutoSkip /\ CancelOff /\ UNCHANGED << rearmVars, autoVars, skipVars, lifeVars >>

\* The player observed for the cancellation of its countdowns.
SpecCancel == Init /\ [][NextCancel]_vars

\* ------------------------------------------- the player's timers torn down
\* The uri prop changes: useVideoPlayer hands the render another player.  The
\* sampler effect, whose dependencies are [player, onProgress], is cleaned
\* up and run again; the countdown effect, whose dependencies are
\* [activeSkipMarker, skipSettings.autoSkipEnabled], is not.
PlayerChanges ==
    /\ mounted
    /\ Quiescent
    /\ player < MaxPlayers
    /\ player' = player + 1
    /\ samplerPlayer' = player + 1
    /\ fired' = NoTimer
    /\ ticked' = FALSE
    /\ prevActive' = NULL
    /\ UNCHANGED << mounted, intervalPlayer >>
    /\ UNCHANGED << settingsVars, timerVars, communitySkipMarkers, currentPosition,
                    duration, activeSkipMarker, playerTime, resDirty, cdDirty >>
    /\ UNCHANGED << rearmVars, autoVars, skipVars, cancelVars >>
    /\ UNCHANGED aggVars
    /\ UNCHANGED traktVars
    /\ UNCHANGED serviceVars
    /\ UNCHANGED screenVars

\* VideoPlayer unmounts: the cleanups of both effects clear their intervals.
Unmount ==
    /\ mounted
    /\ mounted' = FALSE
    /\ samplerPlayer' = 0
    /\ intervalPlayer' = 0
    /\ intervalLive' = FALSE
    /\ fired' = NoTimer
    /\ UNCHANGED player
    /\ UNCHANGED << settingsVars, autoSkipCountdown, countdown, intervalMarker,
                    communitySkipMarkers, currentPosition, duration,
                    activeSkipMarker, playerTime, resDirty, cdDirty, ticked,
                    prevActive >>
    /\ UNCHANGED << rearmVars, autoVars, skipVars, cancelVars >>
    /\ UNCHANGED aggVars
    /\ UNCHANGED traktVars
    /\ UNCHANGED serviceVars
    /\ UNCHANGED screenVars

\* The sampler's callback runs: it reads the player of its closure.
SamplerFires ==
    /\ samplerPlayer # 0
    /\ fired' = [NoTimer EXCEPT !.timer = "sampler", !.held = samplerPlayer,
                                !.current = player]
    /\ UNCHANGED << mounted, player, samplerPlayer, intervalPlayer >>

\* An effect runs or the button is pressed: only while mounted.
WhileMounted ==
    /\ mounted
    /\ fired' = NoTimer
    /\ UNCHANGED << mounted, player, samplerPlayer, intervalPlayer >>

\* The countdown effect runs: the handleSkip its interval will call is the
\* one of this render, with this render's player.
IntervalCreated ==
    /\ mounted
    /\ intervalPlayer' = IF ~IsNull(activeSkipMarker) /\ autoSkipEnabled THEN player ELSE 0
    /\ fired' = NoTimer
    /\ UNCHANGED << mounted, player, samplerPlayer >>

\* The countdown's callback runs; at 0 its handleSkip writes the currentTime
\* of the player it holds.
IntervalFires ==
    /\ fired' = [NoTimer EXCEPT !.timer = "countdown",
                                !.skip = (countdown - 1 <= 0 /\ ~IsNull(intervalMarker)),
                                !.held = intervalPlayer, !.current = player]
    /\ intervalPlayer' = IF countdown - 1 <= 0 THEN 0 ELSE intervalPlayer
    /\ UNCHANGED << mounted, player, samplerPlayer >>

lifeRest == << rearmVars, autoVars, skipVars, cancelVars >>

NextTeardown ==
    \/ Sample /\ SamplerFires /\ UNCHANGED lifeRest
    \/ LoadMarkers /\ WhileMounted /\ UNCHANGED lifeRest
    \/ ResolutionEffect /\ WhileMounted /\ UNCHANGED lifeRest
    \/ CountdownEffect /\ IntervalCreated /\ UNCHANGED lifeRest
    \/ CountdownTick /\ IntervalFires /\ UNCHANGED lifeRest
    \/ HandleSkip /\ WhileMounted /\ UNCHANGED lifeRest
    \/ PlayerChanges
    \/ Unmount

\* The player with auto-skip on and community markers only, its uri
\* changing and its screen left.
SpecTeardown == InitAgg /\ [][NextTeardown]_vars

\* ------------------------------------------------------- the toggles
\* The player re-rendered with the other value of
\* skipSettings.enabledManualSkip, a dependency of the resolution effect.
SetManualSkip ==
    /\ Quiescent
    /\ enabledManualSkip' = ~enabledManualSkip
    /\ resDirty' = TRUE
    /\ ticked' = FALSE
    /\ prevActive' = NULL
    /\ UNCHANGED << enabledCommunitySkip, autoSkipEnabled, manualIntroSkip,
                    manualCreditsSkip, timerVars, communitySkipMarkers,
                    currentPosition, duration, activeSkipMarker, playerTime,
                    cdDirty >>
    /\ UNCHANGED aggVars
    /\ UNCHANGED traktVars
    /\ UNCHANGED serviceVars
    /\ UNCHANGED screenVars

\* The same for skipSettings.enabledCommunitySkip, which is a dependency of
\* loadSkipData too: turned off, PlayerScreen sets the marker list to [];
\* turned on, it fetches the list, which LoadMarkers delivers.
SetCommunitySkip ==
    /\ Quiescent
    /\ enabledCommunitySkip' = ~enabledCommunitySkip
    /\ communitySkipMarkers' = IF enabledCommunitySkip THEN << >>
                               ELSE communitySkipMarkers
    /\ resDirty' = TRUE
    /\ ticked' = FALSE
    /\ prevActive' = NULL
    /\ UNCHANGED << enabledManualSkip, autoSkipEnabled, manualIntroSkip,
                    manualCreditsSkip, timerVars, currentPosition, duration,
                    activeSkipMarker, playerTime, cdDirty >>
    /\ UNCHANGED aggVars
    /\ UNCHANGED traktVars
    /\ UNCHANGED serviceVars
    /\ UNCHANGED screenVars

NextToggle ==
    \/ Sample /\ UNCHANGED observerVars
    \/ LoadMarkers /\ UNCHANGED observerVars
    \/ ResolutionEffect /\ UNCHANGED observerVars
    \/ CountdownEffect /\ UNCHANGED observerVars
    \/ CountdownTick /\ UNCHANGED observerVars
    \/ HandleSkip /\ UNCHANGED observerVars
    \/ SetManualSkip /\ UNCHANGED observerVars
    \/ SetCommunitySkip /\ UNCHANGED observerVars

\* The player with its two source toggles flipped during playback.
SpecToggle == InitRearm /\ [][NextToggle]_vars

\* ------------------------------------------------------------------ claims
\* C1: after a tick with duration > 0 and community skip enabled, if some
\* community marker's window contains the position and the manual intro or
\* credits fallback would apply there too, the active marker is a community
\* (fingerprint) marker of the list, never the manual one.
C1_CommunityPriority ==
    ( /\ ticked
      /\ duration > 0
      /\ enabledCommunitySkip
      /\ WindowIndices(currentPosition) # {}
      /\ (ManualIntroApplies \/ ManualCreditsApplies) )
    => /\ activeSkipMarker.source = "fingerprint"
       /\ \E i \in WindowIndices(currentPosition) :
             activeSkipMarker = communitySkipMarkers[i]

C1_Witness ==
    /\ ticked
    /\ duration > 0
    /\ enabledCommunitySkip
    /\ ManualIntroApplies
    /\ \E i \in WindowIndices(currentPosition) :
          /\ communitySkipMarkers[i].type = "intro"
          /\ activeSkipMarker = communitySkipMarkers[i]

\* C2: the window of a community intro marker m is half-open: after a tick
\* at p with m.startTime <= p < m.endTime (no earlier marker matching) m is
\* active, and after a tick at p = m.endTime m is not active, whatever the
\* previously active marker and the manual settings are.
C2_IntroHalfOpen ==
    \A i \in 1 .. Len(communitySkipMarkers) :
        LET m == communitySkipMarkers[i]
        IN  ( /\ ticked
              /\ duration > 0
              /\ enabledCommunitySkip
              /\ m.type = "intro" )
            => /\ ( /\ m.startTime <= currentPosition
                    /\ currentPosition < m.endTime
                    /\ \A j \in WindowIndices(currentPosition) : j >= i )
                  => activeSkipMarker = m
               /\ currentPosition = m.endTime => activeSkipMarker # m

\* C3: a community credits marker m is active after a tick at p exactly when
\* m.startTime - 10 <= p < m.endTime (no earlier marker matching): active at
\* m.startTime - 10, not active at m.startTime - 11.
C3_CreditsEarlyActivation ==
    \A i \in 1 .. Len(communitySkipMarkers) :
        LET m == communitySkipMarkers[i]
        IN  ( /\ ticked
              /\ duration > 0
              /\ enabledCommunitySkip
              /\ m.type = "credits"
              /\ \A j \in WindowIndices(currentPosition) : j >= i )
            => ( activeSkipMarker = m
                 <=> ( m.startTime - 10 <= currentPosition
                       /\ currentPosition < m.endTime ) )

\* C4: with manual skip enabled, duration > 0 and no community marker
\* matching, the active marker after a tick is {intro, 0, manualIntroSeconds,
\* manual} whenever manualIntroSeconds > 0 and position < manualIntroSeconds;
\* and after a tick at position >= manualIntroSeconds outside the manual
\* credits window there is no active marker, for every manualCreditsSeconds
\* and every previously active marker.
C4_ManualIntroFallback ==
    ( /\ ticked
      /\ duration > 0
      /\ enabledManualSkip
      /\ NoCommunityMatch )
    => /\ ManualIntroApplies => activeSkipMarker = ManualIntroMarker
       /\ ( currentPosition >= manualIntroSkip /\ ~InManualCreditsWindow )
            => IsNull(activeSkipMarker)

\* C5: with manual skip enabled, the intro branch not matching and no
\* community marker matching, the active marker after a tick is {credits,
\* duration - manualCreditsSeconds, duration, manual} exactly when
\* manualCreditsSeconds > 0 and duration - manualCreditsSeconds - 10 <=
\* position < duration - 5; after a tick at a position >= duration - 5 no
\* manual credits marker is active.
C5_ManualCreditsFallback ==
    ticked =>
      /\ ( /\ enabledManualSkip
           /\ ~ManualIntroApplies
           /\ NoCommunityMatch )
         => ( activeSkipMarker = ManualCreditsMarker <=> InManualCreditsWindow )
      /\ currentPosition >= duration - 5
         => ~( activeSkipMarker.type = "credits" /\ activeSkipMarker.source = "manual" )

C5_Witness ==
    /\ ticked
    /\ enabledManualSkip
    /\ NoCommunityMatch
    /\ InManualCreditsWindow
    /\ currentPosition = duration - 6
    /\ activeSkipMarker = ManualCreditsMarker

\* C6: after any resolution tick a non-null active marker's activation window
\* contains the tick's position.
C6_NoStaleMarker ==
    ( ticked /\ ~IsNull(activeSkipMarker) )
    => WindowContains(activeSkipMarker, currentPosition, duration)

\* C7 as stated: in a tick where community skip is enabled and the community
\* list is non-empty the manual fallback is not evaluated, so the active
\* marker after the tick is never a manual-source marker.
C7_ManualIsElseBranch ==
    ( ticked /\ enabledCommunitySkip /\ Len(communitySkipMarkers) > 0 )
    => activeSkipMarker.source # "manual"

\* C7 as amended: in a tick where community skip is enabled and some community
\* marker's window contains the position, the active marker after the tick is
\* not a manual-source marker; when the list is non-empty and no community
\* marker matches, the manual fallback is evaluated: with manual skip enabled
\* the manual intro marker, or else the manual credits marker, is active where
\* its condition holds.
C7_ManualIsFallThrough ==
    ( ticked /\ duration > 0 /\ enabledCommunitySkip /\ Len(communitySkipMarkers) > 0 )
    => /\ WindowIndices(currentPosition) # {} => activeSkipMarker.source # "manual"
       /\ ( WindowIndices(currentPosition) = {} /\ ManualIntroApplies )
            => activeSkipMarker = ManualIntroMarker
       /\ ( WindowIndices(currentPosition) = {} /\ ManualCreditsApplies )
            => activeSkipMarker = ManualCreditsMarker

C7_Witness ==
    /\ ticked
    /\ duration > 0
    /\ enabledCommunitySkip
    /\ Len(communitySkipMarkers) > 0
    /\ WindowIndices(currentPosition) = {}
    /\ ManualIntroApplies
    /\ activeSkipMarker = ManualIntroMarker

\* C8: when the windows of several community markers contain the position in
\* the same tick, the active marker after the tick is the one with the
\* smallest index in the list, whatever the marker types.
C8_FirstMatchWins ==
    ( /\ ticked
      /\ duration > 0
      /\ enabledCommunitySkip
      /\ Cardinality(WindowIndices(currentPosition)) >= 2 )
    => \E i \in WindowIndices(currentPosition) :
          /\ \A j \in WindowIndices(currentPosition) : i <= j
          /\ activeSkipMarker = communitySkipMarkers[i]

C8_Witness ==
    /\ ticked
    /\ duration > 0
    /\ enabledCommunitySkip
    /\ \E i, j \in WindowIndices(currentPosition) :
          /\ i < j
          /\ communitySkipMarkers[i].type = "credits"
          /\ communitySkipMarkers[j].type = "intro"
          /\ activeSkipMarker = communitySkipMarkers[i]

\* C9: after every resolution tick in which duration is 0 the active marker
\* is null, whatever the position, markers, toggles and previous marker are.
C9_NoDurationNoMarker ==
    ( ticked /\ duration = 0 ) => IsNull(activeSkipMarker)

C9_Witness ==
    /\ ticked
    /\ duration = 0
    /\ currentPosition > 0
    /\ ~IsNull(prevActive)
    /\ IsNull(activeSkipMarker)

\* C10: after a marker has been skipped or left, a later tick whose position
\* lies inside its activation window makes the marker active again, and with
\* auto-skip enabled a new countdown starts at 3: once the effects of that
\* tick have run the countdown shows 3.
C10_Rearm ==
    ~IsNull(rearmed) =>
      /\ activeSkipMarker = rearmed
      /\ ( Quiescent /\ autoSkipEnabled )
           => ( intervalLive /\ autoSkipCountdown = << 3 >> )

\* C11: when a marker (community or manual) becomes active with auto-skip on
\* and every later tick finds the position inside its window, then at the
\* third countdown interval the skip has been performed (the player is at the
\* marker's end time) and the active marker is null.
C11_AutoSkipFires ==
    ( ~IsNull(tracked) /\ cdTicks = CountdownStart ) =>
      /\ IsNull(activeSkipMarker)
      /\ playerTime = tracked.endTime

\* C12: after a skip of a marker, and until the sampler has read the position
\* again, that marker is not the active marker and no countdown is running
\* for it: the player is at the marker's end time, outside its window.
C12_NoDuplicateSkip ==
    ~IsNull(skipped) =>
      /\ activeSkipMarker # skipped
      /\ ( intervalLive /\ ~cdDirty ) => intervalMarker # skipped

\* C13: while the marker that became active stays active (community or
\* manual), the countdown shows 3 less the number of intervals elapsed: each
\* interval lowers it by one and the position samples in between do not put
\* it back to 3.
C13_CountdownSteps ==
    ( ~IsNull(tracked) /\ cdTicks < CountdownStart /\ ~cdDirty ) =>
      /\ intervalLive
      /\ autoSkipCountdown = << CountdownStart - cdTicks >>

\* C14: when the active marker becomes null or auto-skip is turned off while
\* a countdown has 1 or more left, no interval of that countdown fires, and
\* once the countdown effect has run the interval is gone and the displayed
\* countdown is undefined.
C14_Cancellation ==
    cancelled # NoCancel =>
      /\ ~lateTick
      /\ ~cdDirty => ( ~intervalLive /\ autoSkipCountdown = Undefined )

C14_Witness ==
    /\ cancelled # NoCancel
    /\ cancelled.cd = 2
    /\ cancelled.why = "null"
    /\ Quiescent
    /\ ~intervalLive
    /\ autoSkipCountdown = Undefined

\* C15: right after handleSkip found a marker active (whatever the countdown,
\* auto-skip on or off) the player is at that marker's end time, the active
\* marker is null and the teardown of a running countdown is pending, so its
\* interval cannot fire; right after handleSkip found no marker active, the
\* player position, the marker, the countdown and the interval are as before.
\* An interval whose marker has been set to null is always pending teardown.
C15_UserSkip ==
    /\ pressed # NoPress =>
         IF ~IsNull(pressed.m)
         THEN /\ playerTime = pressed.m.endTime
              /\ IsNull(activeSkipMarker)
              /\ cdDirty
         ELSE /\ playerTime = pressed.pt
              /\ IsNull(activeSkipMarker)
              /\ autoSkipCountdown = pressed.cd
              /\ intervalLive = pressed.live
              /\ Quiescent
    /\ ( IsNull(activeSkipMarker) /\ intervalLive ) => cdDirty

C15_Witness ==
    /\ pressed # NoPress
    /\ ~IsNull(pressed.m)
    /\ pressed.live
    /\ pressed.cd = << 2 >>
    /\ pressed.pt # pressed.m.endTime
    /\ playerTime = pressed.m.endTime
    /\ IsNull(activeSkipMarker)

\* Two markers of the same type whose starts are less than 2 seconds apart.
Near(x, y) == x.type = y.type /\ Abs(x.startTime - y.startTime) < 2

\* The indices of the second provider's markers that the merged list m, which
\* starts with the first provider's list a, holds after a.
Appended(a, b, m) ==
    { j \in 1 .. Len(b) : \E i \in Len(a) + 1 .. Len(m) : m[i] = b[j] }

\* The n-th index of a set of indices.
Nth(S, n) == CHOOSE j \in S : Cardinality({ x \in S : x < j }) = n - 1

\* C16: the merged list starts with the first provider's markers in order; a
\* marker of the second provider is appended, in the second provider's order,
\* iff no marker then in the merged list has its type and a start less than 2
\* away.  Same-type markers with starts less than 2 apart leave one marker,
\* the first provider's; starts more than 2 apart leave both; markers of
\* different types are both kept.
C16_MergeDedup ==
    aggEvent.op = "done" =>
      LET a == aggEvent.r1.value
          b == aggEvent.r2.value
          m == aggEvent.value
          app == Appended(a, b, m)
      IN  /\ Len(m) >= Len(a)
          /\ \A i \in 1 .. Len(a) : m[i] = a[i]
          /\ \A j \in 1 .. Len(b) :
                j \in app <=>
                  ~ \/ \E i \in 1 .. Len(a) : Near(a[i], b[j])
                    \/ \E h \in app : h < j /\ Near(b[h], b[j])
          /\ Len(m) = Len(a) + Cardinality(app)
          /\ \A n \in 1 .. Cardinality(app) : m[Len(a) + n] = b[Nth(app, n)]
          /\ \A i \in 1 .. Len(a), j \in 1 .. Len(b) :
                /\ Near(a[i], b[j]) =>
                     { h \in 1 .. Len(m) : m[h].type = a[i].type } = { i }
                /\ ( a[i].type = b[j].type
                       /\ Abs(a[i].startTime - b[j].startTime) > 2 ) =>
                     \E h \in Len(a) + 1 .. Len(m) : m[h] = b[j]
          /\ \A j \in 1 .. Len(b) :
                ( \A i \in 1 .. Len(a) : a[i].type # b[j].type ) => j \in app

C16_Witness ==
    /\ aggEvent.op = "done"
    /\ Len(aggEvent.r1.value) = 1
    /\ Len(aggEvent.r2.value) = 2
    /\ Len(aggEvent.value) = 2
    /\ aggEvent.r1.value[1].type = "intro"
    /\ aggEvent.r2.value[1].type = "intro"
    /\ aggEvent.r2.value[1].startTime = aggEvent.r1.value[1].startTime + 1
    /\ aggEvent.r2.value[1].endTime # aggEvent.r1.value[1].endTime
    /\ aggEvent.value[1] = aggEvent.r1.value[1]
    /\ aggEvent.value[2] = aggEvent.r2.value[2]

\* A call for key k has just sent its two provider requests.
Invoked(k) ==
    \E c \in 1 .. MaxCalls :
        /\ calls[c].state = "fetching"
        /\ calls[c].key = k
        /\ calls[c].r1 = Pending
        /\ calls[c].r2 = Pending

\* C17: a lookup of a key whose list (empty or not) was cached at fetchedAt,
\* whatever fetchedAt is, returns the cached list and invokes no provider when
\* now - fetchedAt < 24 h, and invokes both providers when now - fetchedAt
\* >= 24 h; the fetch that completes leaves its list in the cache, stamped
\* with the time of completion.
C17_CacheTTL ==
    /\ ( aggEvent.op \in { "hit", "miss" }
           /\ aggEvent.hadCache.has /\ aggEvent.hadTime.has ) =>
         IF now - aggEvent.hadTime.value < 24 * 60 * 60 * 1000
         THEN /\ aggEvent.op = "hit"
              /\ aggEvent.value = aggEvent.hadCache.value
              /\ ~Invoked(aggEvent.key)
         ELSE /\ aggEvent.op = "miss"
              /\ Invoked(aggEvent.key)
    /\ aggEvent.op = "done" =>
         /\ cache[aggEvent.key] = Entry(aggEvent.value)
         /\ lastFetchTime[aggEvent.key] = Entry(now)

\* A provider request that failed: network error, non-2xx status or a body
\* that cannot be read.
Failed(r) == r.kind \in { "network", "status", "malformed" }

\* C18: a lookup that misses the cache sends both provider requests; when
\* exactly one of them fails, the call returns (it does not throw) exactly the
\* markers of the other provider.
C18_OneProviderFails ==
    /\ aggEvent.op = "miss" => Invoked(aggEvent.key)
    /\ aggEvent.op = "done" =>
         /\ ( Failed(aggEvent.r1) /\ ~Failed(aggEvent.r2) ) =>
              ( aggEvent.status = "fulfilled" /\ aggEvent.value = aggEvent.r2.value )
         /\ ( ~Failed(aggEvent.r1) /\ Failed(aggEvent.r2) ) =>
              ( aggEvent.status = "fulfilled" /\ aggEvent.value = aggEvent.r1.value )

C18_Witness ==
    /\ aggEvent.op = "done"
    /\ aggEvent.r1.kind = "ok"
    /\ aggEvent.r2.kind = "network"
    /\ aggEvent.status = "fulfilled"
    /\ Len(aggEvent.value) = 2
    /\ aggEvent.value = aggEvent.r1.value

\* C19: whatever the two provider requests come to, the call returns a list
\* and does not throw; when both fail the list is empty, and the resolution
\* given that list selects no community marker at any position: it resolves
\* as with community skip off.
C19_TotalFailureContained ==
    aggEvent.op = "done" =>
      /\ aggEvent.status = "fulfilled"
      /\ ( Failed(aggEvent.r1) /\ Failed(aggEvent.r2) ) =>
           /\ aggEvent.value = << >>
           /\ \A p \in Positions, d \in Durations, on \in BOOLEAN,
                 mi \in ManualIntroChoices, mc \in ManualCreditsChoices :
                 /\ ~CommunityApplies(TRUE, AsObjects(aggEvent.value), p)
                 /\ Resolve(d, p, TRUE, AsObjects(aggEvent.value), on, mi, mc, NULL)
                      = Resolve(d, p, FALSE, << >>, on, mi, mc, NULL)

C19_Witness ==
    /\ aggEvent.op = "done"
    /\ aggEvent.r1.kind = "status"
    /\ aggEvent.r2.kind = "malformed"
    /\ aggEvent.status = "fulfilled"
    /\ aggEvent.value = << >>

\* C20: right after clearCache no key has a cached list or a fetch time, and a
\* lookup of a key that has neither sends the provider requests; a fetch that
\* was in flight when clearCache ran returns the merge of what its providers
\* answered, and at its completion that list is the key's cache entry,
\* stamped with the time of completion.
C20_ClearCache ==
    /\ aggEvent.op = "clear" =>
         \A k \in Keys : cache[k] = NoList /\ lastFetchTime[k] = NoTime
    /\ ( aggEvent.op \in { "hit", "miss" }
           /\ ~aggEvent.hadCache.has /\ ~aggEvent.hadTime.has ) =>
         ( aggEvent.op = "miss" /\ Invoked(aggEvent.key) )
    /\ ( aggEvent.op = "done" /\ aggEvent.cleared ) =>
         /\ aggEvent.value = MergeMarkers(aggEvent.r1.value, aggEvent.r2.value)
         /\ cache[aggEvent.key] = Entry(aggEvent.value)
         /\ lastFetchTime[aggEvent.key] = Entry(now)

C20_Witness ==
    /\ aggEvent.op = "done"
    /\ aggEvent.cleared
    /\ ~aggEvent.hadCache.has
    /\ Len(aggEvent.value) = 3
    /\ now = cacheTTL
    /\ cache[aggEvent.key] = Entry(aggEvent.value)
    /\ lastFetchTime[aggEvent.key] = Entry(cacheTTL)

\* ------------------------------------------------------------- C21
\* Whether a field, or a field of a field, of a body is there.
Present(x) == x # Absent
BothPresent(x) == Present(x) /\ Present(x.start) /\ Present(x.end)
OfType(markers, t) == { i \in 1 .. Len(markers) : markers[i].type = t }

\* C21. Adapter output: from every response body the adapter emits an intro
\* marker iff intro.start and intro.end are both present and a credits
\* marker iff outro.start and outro.end are both present; at most two
\* markers, the intro before the credits, each with source "fingerprint" and
\* with the body's start and end as startTime and endTime; the flat s and e
\* fields do not influence the output: it is the output for the same body
\* without them.
C21_AdapterOutput ==
    aggEvent.op = "converted" =>
      LET data == aggEvent.body
          markers == aggEvent.value
          intros == OfType(markers, "intro")
          credits == OfType(markers, "credits")
      IN  /\ (intros # {}) <=> BothPresent(data.intro)
          /\ (credits # {}) <=> BothPresent(data.outro)
          /\ Cardinality(intros) <= 1 /\ Cardinality(credits) <= 1
          /\ Len(markers) <= 2
          /\ \A i \in intros : \A j \in credits : i < j
          /\ \A i \in 1 .. Len(markers) :
               /\ markers[i].type \in { "intro", "credits" }
               /\ markers[i].source = "fingerprint"
          /\ \A i \in intros :
               /\ markers[i].startTime = data.intro.start[1]
               /\ markers[i].endTime = data.intro.end[1]
          /\ \A j \in credits :
               /\ markers[j].startTime = data.outro.start[1]
               /\ markers[j].endTime = data.outro.end[1]
          /\ markers = ConvertToSkipMarkers([data EXCEPT !.s = Absent, !.e = Absent])

\* A body with both spans complete and both flat fields set was converted
\* to two markers.
C21_Witness ==
    /\ aggEvent.op = "converted"
    /\ BothPresent(aggEvent.body.intro)
    /\ BothPresent(aggEvent.body.outro)
    /\ Present(aggEvent.body.s) /\ Present(aggEvent.body.e)
    /\ Len(aggEvent.value) = 2

\* ------------------------------------------------------------- C22
WellFormed(m) == 0 <= m.startTime /\ m.startTime < m.endTime
AllWellFormed(markers) == \A i \in 1 .. Len(markers) : WellFormed(markers[i])

\* C22. Marker well-formedness: every SkipMarker in the system, whether the
\* adapter produced it from a response body, the cache stores it, the player
\* holds it in its community list or made it its active marker (manual
\* fallback included), has 0 <= startTime < endTime.
C22_WellFormedMarkers ==
    /\ aggEvent.op \in { "converted", "done", "hit" } => AllWellFormed(aggEvent.value)
    /\ \A k \in Keys : cache[k].has => AllWellFormed(cache[k].value)
    /\ AllWellFormed(communitySkipMarkers)
    /\ ~IsNull(activeSkipMarker) => WellFormed(activeSkipMarker)

\* ------------------------------------------------------------- C23
Operations == { "onPlay", "onPause", "onStop", "updateProgress" }

C24_StartAtMostOnce == freshStarts <= 1

\* ------------------------------------------------------------- C25
StartAwaits == { "scrobbleStart", "onPlay" }

\* C25. The remote flag follows success: a step turns isPlaying from false
\* to true only if it is the settling of a start request, fresh or resume,
\* that returned success; a start request that fails leaves the flag false.
C25_FlagFollowsSuccess ==
    /\ ( ~traktEvent.playing /\ isPlaying ) =>
         ( traktEvent.op = "settle" /\ traktEvent.settled \in StartAwaits
             /\ traktEvent.ok )
    /\ ( traktEvent.op = "settle" /\ traktEvent.settled \in StartAwaits
           /\ ~traktEvent.ok /\ ~traktEvent.playing ) => ~isPlaying

\* ------------------------------------------------------------- C26
\* onPause sends a pause only if isPlaying is true at the call, and when the
\* pause has settled isPlaying is false.
PauseOnlyWhenPlaying ==
    /\ ( traktEvent.op = "onPause" /\ traktEvent.sent = "pause" ) => traktEvent.playing
    /\ ( traktEvent.op = "settle" /\ traktEvent.settled = "scrobblePause" ) => ~isPlaying

\* No start has succeeded since the last reset: onPause sends nothing.
NoPauseBeforeStart ==
    ( traktEvent.op = "onPause" /\ ~traktEvent.succeeded ) => traktEvent.sent = "none"

\* An onPause that follows an onPause which sent a pause sends none.
NoSecondPause == ~traktEvent.again

\* C26. Pause gating: onPause sends a pause request only if isPlaying is true
\* when it is called, and once the call is over isPlaying is false; in a
\* session in which no start has succeeded onPause sends nothing; of two
\* onPause calls one after the other at most one sends a pause request.
C26_PauseGating == PauseOnlyWhenPlaying /\ NoPauseBeforeStart /\ NoSecondPause

\* ------------------------------------------------------------- C27
\* C27. Stop: with a token, onStop sends a stop request that carries the last
\* known progress, whether isPlaying is true or false; when onStop is over,
\* whether the request succeeded or not, isPlaying is false.
C27_Stop ==
    /\ ( traktEvent.op = "onStop" /\ traktEvent.token ) =>
         /\ traktEvent.sent = "stop"
         /\ traktEvent.payload = traktEvent.progress
    /\ ( traktEvent.op = "settle" /\ traktEvent.settled = "scrobbleStop" ) =>
         ~isPlaying

\* onStop was called with the flag false and a progress of 80% or more on
\* record, and sent its stop.
C27_Witness ==
    /\ traktEvent.op = "onStop"
    /\ traktEvent.token
    /\ ~traktEvent.playing
    /\ traktEvent.progress >= CompletionPercent
    /\ traktEvent.sent = "stop"
    /\ traktEvent.payload = traktEvent.progress

\* ------------------------------------------------------------- C28
\* C28. One-shot completion report: within a session (from one reset to the
\* next) the completion report, a stop request with progress >= 80, is sent
\* at the first sample whose position/duration*100 is >= 80 and at no other
\* sample: not at a later one at 80% or more, whatever came between and
\* whether or not the report succeeded or has settled at all, not at a
\* sample below 80%, and never at a sample with duration 0.
C28_OneShotReport ==
    /\ reports <= 1
    /\ traktEvent.op = "updateProgress" =>
         /\ ( traktEvent.token /\ traktEvent.duration # 0
                /\ traktEvent.percent >= CompletionPercent ) =>
              /\ (traktEvent.sent = "stop") <=> traktEvent.first
              /\ traktEvent.first => traktEvent.payload = traktEvent.percent
         /\ traktEvent.percent < CompletionPercent => traktEvent.sent = "none"
         /\ traktEvent.duration = 0 => traktEvent.sent = "none"

\* A sample at 80% or more was processed while the session's report was
\* still in flight, after a sample below 80%, and sent nothing.
C28_Witness ==
    /\ traktEvent.op = "updateProgress"
    /\ traktEvent.token
    /\ traktEvent.percent >= CompletionPercent
    /\ traktEvent.progress < CompletionPercent
    /\ ~traktEvent.first
    /\ traktEvent.sent = "none"
    /\ requests["updateProgress"] = 1
    /\ reports = 1

\* ------------------------------------------------------------- C29
\* C29. Scrobble idempotence: once the completion report of a session has
\* been sent, onStop calls, however many, followed by further samples at
\* 80% or more cause no second completion report for that session, the
\* session lasting until the caller resets the scrobble state.
C29_Idempotence == sessionReports <= 1

\* ------------------------------------------------------------- C30
\* onPlay after a start has succeeded in the session, with the flag false:
\* a start request with the last progress recorded by updateProgress.
ResumeAtLastProgress ==
    ( traktEvent.op = "onPlay" /\ traktEvent.succeeded /\ ~traktEvent.playing ) =>
      ( traktEvent.sent = "start" /\ traktEvent.payload = traktEvent.progress )

\* onPlay with the flag true: no request.
NoStartWhilePlaying ==
    ( traktEvent.op = "onPlay" /\ traktEvent.playing ) => traktEvent.sent = "none"

\* C30. Resume: onPlay called after a start has succeeded in this session,
\* with isPlaying false (after a pause), sends a start request that carries
\* the last progress recorded by updateProgress, not 0; onPlay called while
\* isPlaying is true sends no request.
C30_Resume == ResumeAtLastProgress /\ NoStartWhilePlaying

\* ------------------------------------------------------------- C31
\* The token a call started with is within 60 seconds of its expiry, or past
\* it.
WithinAMinute(call) ==
    /\ call.had.expiresAt.has
    /\ call.had.expiresAt.value - call.at <= 60 * 1000

C32_TimerTeardown ==
    /\ fired.timer # "none" => fired.held = fired.current
    /\ ~mounted => ( ~intervalLive /\ samplerPlayer = 0 /\ intervalPlayer = 0 )
    /\ intervalLive => intervalPlayer # 0

\* ------------------------------------------------------------- C33
\* The calls in progress for a key.
Fetching(k) == { c \in CallSlots : calls[c].state = "fetching" /\ calls[c].key = k }

\* C33. Concurrent refresh is last-writer-wins: of two overlapping lookups
\* of one key that miss the cache, each sends its own two provider requests;
\* a lookup that completes leaves in the cache exactly its own merged list,
\* whole, with its own timestamp, whatever the other lookup had written;
\* and the cache never holds a list without a timestamp.
C33_LastWriterWins ==
    /\ aggEvent.op = "miss" =>
         \E c \in Fetching(aggEvent.key) :
           /\ calls[c].r1 = Pending /\ calls[c].r2 = Pending
           /\ calls[c].overlap => Cardinality(Fetching(aggEvent.key)) = 2
    /\ aggEvent.op = "done" =>
         /\ aggEvent.value = MergeMarkers(aggEvent.r1.value, aggEvent.r2.value)
         /\ cache[aggEvent.key] = Entry(aggEvent.value)
         /\ lastFetchTime[aggEvent.key] = Entry(now)
    /\ \A k \in Keys : cache[k].has <=> lastFetchTime[k].has

\* Both lookups have completed, the second one later than the first and with
\* another list: the cache holds the second one's list and time.
C33_Witness ==
    /\ aggEvent.op = "done"
    /\ aggEvent.overlap
    /\ aggEvent.hadCache.has
    /\ Len(aggEvent.hadCache.value) = 2
    /\ Len(aggEvent.value) = 1
    /\ aggEvent.hadTime.value < now
    /\ Fetching(aggEvent.key) = {}
    /\ cache[aggEvent.key] = Entry(aggEvent.value)
    /\ lastFetchTime[aggEvent.key] = Entry(now)

\* ------------------------------------------------------------- C34
\* C34. Bounded provider wait: every call of getSkipMarkersForEpisode
\* returns in the end, also when one provider or both never answer.
C34_BoundedWait == ( calls[1].state = "fetching" ) ~> ( calls[1].state = "idle" )

\* ------------------------------------------------------------- C35
\* C35. Failures are cached like successes: a call both of whose provider
\* requests failed returns the empty list and leaves it in the cache, stamped
\* with the time of completion; a lookup of a key whose cached list is empty
\* and less than 24 h old, whatever its stamp, returns the empty list and
\* invokes no provider; only a call that throws leaves the cache as it was.
C35_FailuresCached ==
    /\ ( aggEvent.op = "done" /\ Failed(aggEvent.r1) /\ Failed(aggEvent.r2) ) =>
         /\ aggEvent.status = "fulfilled"
         /\ aggEvent.value = << >>
         /\ cache[aggEvent.key] = Entry(<< >>)
         /\ lastFetchTime[aggEvent.key] = Entry(now)
    /\ ( aggEvent.op \in { "hit", "miss" }
           /\ aggEvent.hadCache = Entry(<< >>)
           /\ aggEvent.hadTime.has
           /\ now - aggEvent.hadTime.value < 24 * 60 * 60 * 1000 ) =>
         /\ aggEvent.op = "hit"
         /\ aggEvent.value = << >>
         /\ ~Invoked(aggEvent.key)
    /\ ( aggEvent.op = "done" /\ aggEvent.status = "rejected" ) =>
         /\ cache[aggEvent.key] = aggEvent.hadCache
         /\ lastFetchTime[aggEvent.key] = aggEvent.hadTime

\* The same with the stamp 0, which the cache test takes for no stamp, left
\* aside.
C35_FailuresCachedAfterZero ==
    /\ ( aggEvent.op = "done" /\ Failed(aggEvent.r1) /\ Failed(aggEvent.r2) ) =>
         /\ aggEvent.status = "fulfilled"
         /\ aggEvent.value = << >>
         /\ cache[aggEvent.key] = Entry(<< >>)
         /\ lastFetchTime[aggEvent.key] = Entry(now)
    /\ ( aggEvent.op \in { "hit", "miss" }
           /\ aggEvent.hadCache = Entry(<< >>)
           /\ aggEvent.hadTime.has
           /\ aggEvent.hadTime.value # 0
           /\ now - aggEvent.hadTime.value < 24 * 60 * 60 * 1000 ) =>
         /\ aggEvent.op = "hit"
         /\ aggEvent.value = << >>
         /\ ~Invoked(aggEvent.key)

\* ------------------------------------------------------------- C36
\* C36. Countdown state invariant: in every reachable state the auto-skip
\* countdown is undefined or one of 1, 2, 3, and whenever it is defined the
\* active marker is non-null and auto-skip is enabled.
C36_CountdownInvariant ==
    /\ autoSkipCountdown = Undefined \/ autoSkipCountdown \in { << n >> : n \in 1 .. 3 }
    /\ autoSkipCountdown # Undefined =>
         ( ~IsNull(activeSkipMarker) /\ autoSkipEnabled )

\* C36 in the states React has settled: every effect whose dependencies
\* changed has run.
C36_CountdownInvariantSettled == Quiescent => C36_CountdownInvariant

\* A countdown was cut short by a skip from the button, a new one has
\* started since and has counted down to 1.
C36_Witness ==
    /\ Quiescent
    /\ autoSkipCountdown = << 1 >>
    /\ intervalLive
    /\ ~IsNull(activeSkipMarker)
    /\ autoSkipEnabled
    /\ playerTime = 4
    /\ currentPosition = 1

\* ------------------------------------------------------------- C37
\* C37. A skip never moves playback backward: in every step in which
\* handleSkip, called from the button or from the countdown interval, writes
\* player.currentTime, the position before the write is strictly less than
\* the end time of the marker skipped.
C37_NeverBackward ==
    [][ /\ ( HandleSkip /\ ~IsNull(activeSkipMarker) ) =>
             playerTime < activeSkipMarker.endTime
        /\ ( CountdownTick /\ countdown - 1 <= 0 /\ ~IsNull(intervalMarker) ) =>
             playerTime < intervalMarker.endTime ]_vars

\* ------------------------------------------------------------- C38
\* No call of getSkipMarkersForEpisode is in flight.
AllReturned == \A c \in CallSlots : calls[c].state = "idle"

\* C38. Markers match the loaded episode: once every marker fetch has
\* completed, the community marker list of the screen is the list the
\* aggregator returned for the episode now selected; a slower fetch for an
\* episode selected before never overwrites it.
C38_MarkersMatchEpisode ==
    ( AllReturned /\ loaded # NotLoaded ) =>
      /\ loaded.key = routeKey
      /\ cache[routeKey].has => loaded.value = cache[routeKey].value

\* ------------------------------------------------------------- C39
\* resetScrobbleState has just run, or onStop has just finished (at once
\* without a token, when its stop request settled with one).
JustReset ==
    \/ traktEvent.op = "resetScrobbleState"
    \/ traktEvent.op = "onStop" /\ traktEvent.sent = "none"
    \/ traktEvent.op = "settle" /\ traktEvent.settled = "scrobbleStop"

\* C39. Reset restores the initial sequencer state: right after
\* resetScrobbleState and right after onStop, with or without a token, no
\* start is recorded, no completion is recorded, the last progress is 0 and
\* the remote flag is false.
C39_ResetRestoresInitial ==
    JustReset =>
      /\ ~hasScrobbledStart
      /\ ~hasScrobbled80
      /\ lastProgress = 0
      /\ ~isPlaying

\* The refs that resetScrobbleState writes are as in a fresh session.
C39_WrittenRefsCleared ==
    JustReset => ( ~hasScrobbledStart /\ ~hasScrobbled80 /\ lastProgress = 0 )

C40_ManualOff ==
    ticked =>
      /\ ~enabledManualSkip => activeSkipMarker.source # "manual"
      /\ ( ~enabledManualSkip /\ ~enabledCommunitySkip ) => IsNull(activeSkipMarker)

====
